---------------------------- MODULE Spec2Model ----------------------------
(***************************************************************************)
(* A model of the layered index engine: the arena-backed linked node list  *)
(* (common/list/memory.rs), the PGM node layer built on it                 *)
(* (learned/pgm/pgm_layer.rs), and the B-tree index made of a base layer,  *)
(* an internal layer and the BTreeMap top component                        *)
(* (classical/memory/mod.rs, classical/btree_top.rs); and the page store   *)
(* with its scoped local stores (core/src/common/storage/store.rs).        *)
(*                                                                         *)
(* Several specifications share the module; each one moves its own         *)
(* variables and leaves the others at rest:                                *)
(*   SpecList   the operations of MemoryList                               *)
(*   SpecReuse  the same with replace, and the addresses freed so far      *)
(*   SpecPGM    fill, fill_from_beneath and replace of two PGM layers      *)
(*   SpecFill   fill of a PGM layer that holds entries already             *)
(*   SpecIndex  Index::empty / build / insert / search                     *)
(*   SpecTop    build and insert of the top component                      *)
(*   SpecStore  GlobalStore and LocalStore: load, flush, drop              *)
(*   SpecAlloc  allocate_page, free_page and clear of a GlobalStore        *)
(*   SpecPages  write_page and read_page through the cache                 *)
(*   SpecNames  LocalStores over pages that are allocated and cleared      *)
(***************************************************************************)
EXTENDS Integers, Sequences, FiniteSets, TLC

VARIABLES
    list,      \* SpecList: the MemoryList under test
    lop,       \* SpecList: the last list operation, its arguments and result
    lower,     \* SpecPGM: the layer beneath (a MemoryPGMLayer's inner list)
    upper,     \* SpecPGM: the layer above it
    pop,       \* SpecPGM: the last layer operation, its arguments and pre-state
    base,      \* SpecIndex: the B-tree base layer
    internal,  \* SpecIndex: the B-tree internal layer
    top,       \* SpecIndex: the BTreeMap of the top component
    contents,  \* SpecIndex: key -> most recent value inserted (or None)
    iop,       \* SpecIndex: the last index operation
    store,     \* SpecStore: the page store on disk, the GlobalStore and its LocalStores
    sop        \* SpecStore: the last store operation and its outcome

listVars == <<list, lop>>
pgmVars == <<lower, upper, pop>>
indexVars == <<base, internal, top, contents, iop>>
storeVars == <<store, sop>>
vars == <<list, lop, lower, upper, pop, base, internal, top, contents, iop, store, sop>>

\* Option::None; an address is a pair <<slot, generation>>.
None == <<>>

\* () as a parent address (the top component's PA).
Unit == <<0>>

RECURSIVE SeqMax(_)
SeqMax(s) == IF Len(s) = 1 THEN s[1] ELSE LET m == SeqMax(Tail(s)) IN IF s[1] > m THEN s[1] ELSE m

SetMax(S) == CHOOSE x \in S : \A y \in S : y <= x
SetMin(S) == CHOOSE x \in S : \A y \in S : x <= y

Range(s) == {s[i] : i \in 1..Len(s)}

\* A function on 1..n as a plain sequence.
AsSeq(f) == f \o <<>>

\* The position of x in the sequence s (0 when absent).
IndexOf(s, x) == IF x \in Range(s) THEN CHOOSE i \in 1..Len(s) : s[i] = x ELSE 0

(***************************************************************************)
(* generational_arena::Arena, as MemoryList uses it: insert, index, clear, *)
(* remove, len.  A slot is free or holds a value tagged with the           *)
(* generation it was inserted at; an index names a slot and a generation.  *)
(***************************************************************************)
FreeEntry == [occ |-> FALSE, gen |-> 0, val |-> None]

ArenaNew == [items |-> <<>>, generation |-> 0, free |-> <<>>, len |-> 0]

\* The index the next insert returns: the head of the free list, else a new slot.
ArenaNextIndex(A) ==
    IF A.free # <<>> THEN <<Head(A.free), A.generation>>
    ELSE <<Len(A.items) + 1, A.generation>>

ArenaInsert(A, val) ==
    LET e == [occ |-> TRUE, gen |-> A.generation, val |-> val]
    IN IF A.free # <<>>
       THEN [A EXCEPT !.items[Head(A.free)] = e, !.free = Tail(@), !.len = @ + 1]
       ELSE [A EXCEPT !.items = Append(@, e), !.len = @ + 1]

ArenaContains(A, ix) ==
    /\ Len(ix) = 2
    /\ ix[1] \in 1..Len(A.items)
    /\ A.items[ix[1]].occ
    /\ A.items[ix[1]].gen = ix[2]

ArenaGet(A, ix) == A.items[ix[1]].val

\* Arena::clear, with the generation left where it was.
ArenaClearSameGeneration(A) ==
    [items |-> AsSeq([i \in 1..Len(A.items) |-> FreeEntry]),
     generation |-> A.generation,
     free |-> AsSeq([i \in 1..Len(A.items) |-> i]),
     len |-> 0]

\* Arena::clear: every slot becomes free; the generation moves on if anything was held.
ArenaClear(A) ==
    [items |-> AsSeq([i \in 1..Len(A.items) |-> FreeEntry]),
     generation |-> IF A.len # 0 THEN A.generation + 1 ELSE A.generation,
     free |-> AsSeq([i \in 1..Len(A.items) |-> i]),
     len |-> 0]

\* Arena::remove: the slot is freed, pushed on the free list, the generation moves on.
ArenaRemove(A, ix) ==
    [A EXCEPT !.items[ix[1]] = FreeEntry,
              !.generation = @ + 1,
              !.free = <<ix[1]>> \o @,
              !.len = @ - 1]

\* The indices of the live values.
ArenaIndices(A) == {<<i, A.items[i].gen>> : i \in {j \in 1..Len(A.items) : A.items[j].occ}}

(***************************************************************************)
(* MemoryList<N, PA> and MemoryNode<N>.                                    *)
(***************************************************************************)
MemoryNodeNew(inner) == [inner |-> inner, next |-> None, previous |-> None, parent |-> None]

Node(L, ptr) == ArenaGet(L.arena, ptr)

ListNewPtr == ArenaNextIndex(ArenaNew)

ListNew(inner) ==
    [arena |-> ArenaInsert(ArenaNew, MemoryNodeNew(inner)),
     first |-> ListNewPtr,
     last |-> ListNewPtr]

SetNext(A, ptr, v) == [A EXCEPT !.items[ptr[1]].val.next = v]
SetPrevious(A, ptr, v) == [A EXCEPT !.items[ptr[1]].val.previous = v]

\* The address insert_after / insert_before returns.
InsertPtr(L) == ArenaNextIndex(L.arena)

\* insert_after, with the `last` update of its else branch left out.
InsertAfterKeepsLast(L, inner, ptr) ==
    LET next_ptr == Node(L, ptr).next
        new_node == [inner |-> inner, next |-> next_ptr, previous |-> ptr, parent |-> None]
        new_node_ptr == ArenaNextIndex(L.arena)
        a1 == SetNext(ArenaInsert(L.arena, new_node), ptr, new_node_ptr)
    IN [arena |-> IF next_ptr # None THEN SetPrevious(a1, next_ptr, new_node_ptr) ELSE a1,
        first |-> L.first,
        last |-> L.last]

\* insert_after, with `self.arena[ptr].0.next = Some(new_node_ptr)` left out.
InsertAfterNotLinked(L, inner, ptr) ==
    LET next_ptr == Node(L, ptr).next
        new_node == [inner |-> inner, next |-> next_ptr, previous |-> ptr, parent |-> None]
        new_node_ptr == ArenaNextIndex(L.arena)
        a1 == ArenaInsert(L.arena, new_node)
    IN [arena |-> IF next_ptr # None THEN SetPrevious(a1, next_ptr, new_node_ptr) ELSE a1,
        first |-> L.first,
        last |-> IF next_ptr # None THEN L.last ELSE new_node_ptr]

InsertAfter(L, inner, ptr) ==
    LET next_ptr == Node(L, ptr).next
        new_node == [inner |-> inner, next |-> next_ptr, previous |-> ptr, parent |-> None]
        new_node_ptr == ArenaNextIndex(L.arena)
        a1 == SetNext(ArenaInsert(L.arena, new_node), ptr, new_node_ptr)
    IN [arena |-> IF next_ptr # None THEN SetPrevious(a1, next_ptr, new_node_ptr) ELSE a1,
        first |-> L.first,
        last |-> IF next_ptr # None THEN L.last ELSE new_node_ptr]

\* insert_before, with the `first` update of its else branch left out.
InsertBeforeKeepsFirst(L, inner, ptr) ==
    LET previous_ptr == Node(L, ptr).previous
        new_node == [inner |-> inner, next |-> ptr, previous |-> previous_ptr, parent |-> None]
        new_node_ptr == ArenaNextIndex(L.arena)
        a1 == SetPrevious(ArenaInsert(L.arena, new_node), ptr, new_node_ptr)
    IN [arena |-> IF previous_ptr # None THEN SetNext(a1, previous_ptr, new_node_ptr) ELSE a1,
        first |-> L.first,
        last |-> L.last]

InsertBefore(L, inner, ptr) ==
    LET previous_ptr == Node(L, ptr).previous
        new_node == [inner |-> inner, next |-> ptr, previous |-> previous_ptr, parent |-> None]
        new_node_ptr == ArenaNextIndex(L.arena)
        a1 == SetPrevious(ArenaInsert(L.arena, new_node), ptr, new_node_ptr)
    IN [arena |-> IF previous_ptr # None THEN SetNext(a1, previous_ptr, new_node_ptr) ELSE a1,
        first |-> IF previous_ptr # None THEN L.first ELSE new_node_ptr,
        last |-> L.last]

\* The address clear returns.
ClearPtr(L) == ArenaNextIndex(ArenaClear(L.arena))

\* clear, with the arena.clear() of its first line left out.
ClearKeepsArena(L, inner) ==
    LET ptr == ArenaNextIndex(L.arena)
    IN [arena |-> ArenaInsert(L.arena, MemoryNodeNew(inner)), first |-> ptr, last |-> ptr]

Clear(L, inner) ==
    LET a == ArenaClear(L.arena)
        ptr == ArenaNextIndex(a)
    IN [arena |-> ArenaInsert(a, MemoryNodeNew(inner)), first |-> ptr, last |-> ptr]

ListLen(L) == L.arena.len

Parent(L, ptr) == Node(L, ptr).parent

SetParent(L, ptr, parent) == [L EXCEPT !.arena.items[ptr[1]].val.parent = parent]

Next_(L, ptr) == Node(L, ptr).next

\* The forward traversal: the addresses met from ptr through next links
\* (stopping at a dangling link, and after `fuel` steps).
RECURSIVE WalkFrom(_, _, _)
WalkFrom(L, ptr, fuel) ==
    IF ptr = None \/ fuel = 0 \/ ~ArenaContains(L.arena, ptr) THEN <<>>
    ELSE <<ptr>> \o WalkFrom(L, Node(L, ptr).next, fuel - 1)

Traversal(L) == WalkFrom(L, L.first, Len(L.arena.items) + 1)

(***************************************************************************)
(* LinkedList::append_before_sentinel and LinkedList::replace, the two     *)
(* list operations MemoryPGMLayer calls that memory.rs does not hold.      *)
(***************************************************************************)
\* append_before_sentinel, putting the node after the last node.
AppendAfterSentinel(L, inner) == InsertAfter(L, inner, L.last)

AppendBeforeSentinel(L, inner) == InsertBefore(L, inner, L.last)

\* The addresses from `from` through next links up to and including `to`
\* (to the end of the chain when `to` is never met).
RECURSIVE WalkUntil(_, _, _, _)
WalkUntil(L, from, to, fuel) ==
    IF from = None \/ fuel = 0 \/ ~ArenaContains(L.arena, from) THEN <<>>
    ELSE IF from = to THEN <<from>>
    ELSE <<from>> \o WalkUntil(L, Node(L, from).next, to, fuel - 1)

ChainRange(L, from, to) == WalkUntil(L, from, to, Len(L.arena.items) + 1)

RECURSIVE InsertAllAfter(_, _, _)
InsertAllAfter(L, innards, ptr) ==
    IF innards = <<>> THEN L
    ELSE InsertAllAfter(InsertAfter(L, Head(innards), ptr), Tail(innards), InsertPtr(L))

RECURSIVE RemoveAll(_, _)
RemoveAll(A, ptrs) == IF ptrs = <<>> THEN A ELSE RemoveAll(ArenaRemove(A, Head(ptrs)), Tail(ptrs))

\* replace(head, tail, iter): the nodes of iter are linked in after tail, the range
\* [head, tail] is unlinked and its addresses are freed.
\* Result: the list and the endpoints of the newly linked range.
ListReplace(L, head, tail, innards) ==
    LET old == ChainRange(L, head, tail)
        previous_ptr == Node(L, head).previous
        new_head == InsertPtr(L)
        l1 == InsertAllAfter(L, innards, tail)
        a1 == SetPrevious(l1.arena, new_head, previous_ptr)
        a2 == IF previous_ptr # None THEN SetNext(a1, previous_ptr, new_head) ELSE a1
        new_tail_ptr == IF Len(innards) = 1 THEN new_head
                        ELSE LET w == WalkFrom(l1, new_head, Len(innards)) IN w[Len(w)]
    IN [list |-> [arena |-> RemoveAll(a2, old),
                  first |-> IF previous_ptr # None THEN l1.first ELSE new_head,
                  last |-> l1.last],
        new_head |-> new_head,
        new_tail |-> new_tail_ptr]

(***************************************************************************)
(* LinearModel and PGMInner: the greedy epsilon-segmentation (shrinking    *)
(* cone) and the model's approximate.  A slope is a rational <<n, d>>,     *)
(* d > 0; the intercept makes the line pass through the first point.       *)
(***************************************************************************)
RatLess(a, b) == a[1] * b[2] < b[1] * a[2]
RatMax(a, b) == IF RatLess(a, b) THEN b ELSE a
RatMin(a, b) == IF RatLess(a, b) THEN a ELSE b
RatMid(a, b) == <<a[1] * b[2] + b[1] * a[2], 2 * a[2] * b[2]>>

\* f64::round of n/d (d > 0): to the nearest integer, halves away from zero.
Round(n, d) == IF n >= 0 THEN (2 * n + d) \div (2 * d) ELSE 0 - ((2 * (0 - n) + d) \div (2 * d))

\* The model of a closed segment: the bisector of the cone, through (first key, 0).
\* A one-entry segment has the whole cone; its slope is 0.
LinearModelOf(cone, key0) ==
    LET slope == IF cone = None THEN <<0, 1>> ELSE RatMid(cone[1], cone[2])
    IN [slope |-> slope, intercept |-> <<0 - slope[1] * key0, slope[2]>>]

CloseSegment(entries, start, end, cone) ==
    <<LinearModelOf(cone, entries[start][1]), SubSeq(entries, start, end)>>

RECURSIVE SegmentFrom(_, _, _, _, _)
SegmentFrom(entries, i, start, cone, eps) ==
    IF i > Len(entries) THEN <<CloseSegment(entries, start, Len(entries), cone)>>
    ELSE LET j == i - start
             dx == entries[i][1] - entries[start][1]
             lo == IF cone = None THEN <<j - eps, dx>> ELSE RatMax(cone[1], <<j - eps, dx>>)
             hi == IF cone = None THEN <<j + eps, dx>> ELSE RatMin(cone[2], <<j + eps, dx>>)
         IN IF RatLess(hi, lo)
            THEN <<CloseSegment(entries, start, i - 1, cone)>> \o SegmentFrom(entries, i + 1, i, None, eps)
            ELSE SegmentFrom(entries, i + 1, start, <<lo, hi>>, eps)

\* make_segmentation: a sorted stream of <<key, value>> to a sequence of <<model, entries>>.
MakeSegmentation(entries, eps) ==
    IF entries = <<>> THEN <<>> ELSE SegmentFrom(entries, 2, 1, None, eps)

FromModelNVec(model, entries) == [model |-> model, data |-> entries]

MaxKey == 6

\* The sentinel's +infinity (K's maximum), far above the keys the model draws.
KeyInf == 6 * MaxKey

Sentinel == [model |-> LinearModelOf(None, KeyInf), data |-> <<>>]

\* KeyBounded::lower_bound of a PGM node: its first key; +infinity for the sentinel.
InnerLowerBound(inner) == IF inner.data = <<>> THEN KeyInf ELSE inner.data[1][1]

LowerBound(L, ptr) == InnerLowerBound(Node(L, ptr).inner)

\* approximate(key): the window [lo, hi) around the rounded prediction.
Approximate(inner, key, eps) ==
    LET m == inner.model
        p == Round(m.slope[1] * key + m.intercept[1], m.slope[2])
        lo == IF p - eps > 0 THEN p - eps ELSE 0
        hi == IF p + eps + 1 < Len(inner.data) THEN p + eps + 1 ELSE Len(inner.data)
    IN [lo |-> lo, hi |-> hi]

(***************************************************************************)
(* MemoryPGMLayer: new, fill, fill_from_beneath, replace.                  *)
(***************************************************************************)
PGMNew == ListNew(Sentinel)

RECURSIVE AppendBlueprint(_, _)
AppendBlueprint(L, blueprint) ==
    IF blueprint = <<>> THEN L
    ELSE AppendBlueprint(
            AppendBeforeSentinel(L, FromModelNVec(Head(blueprint)[1], Head(blueprint)[2])),
            Tail(blueprint))

\* fill, with every node given the model of the first segment.
RECURSIVE AppendBlueprintOneModel(_, _, _)
AppendBlueprintOneModel(L, blueprint, model) ==
    IF blueprint = <<>> THEN L
    ELSE AppendBlueprintOneModel(
            AppendBeforeSentinel(L, FromModelNVec(model, Head(blueprint)[2])),
            Tail(blueprint), model)

FillOneModel(L, entries, eps) ==
    LET blueprint == MakeSegmentation(entries, eps)
    IN IF blueprint = <<>> THEN Clear(L, Sentinel)
       ELSE AppendBlueprintOneModel(Clear(L, Sentinel), blueprint, blueprint[1][1])

\* fill, with the clear of its first line left out.
FillKeepsContents(L, entries, eps) == AppendBlueprint(L, MakeSegmentation(entries, eps))

Fill(L, entries, eps) == AppendBlueprint(Clear(L, Sentinel), MakeSegmentation(entries, eps))

\* base.mut_range(Unbounded, Unbounded) mapped to Entry::new(key, address).
LayerEntries(B) ==
    LET t == Traversal(B) IN AsSeq([i \in 1..Len(t) |-> <<LowerBound(B, t[i]), t[i]>>])

\* The second pass of fill_from_beneath, with the cursor moved a second node forward
\* when the node after the next one is not above the key either.
RECURSIVE AssignParentsTwoSteps(_, _, _, _, _, _)
AssignParentsTwoSteps(U, B, t, i, parent_ptr, next_parent_ptr) ==
    IF i > Len(t) THEN B
    ELSE IF next_parent_ptr = None \/ LowerBound(B, t[i]) < LowerBound(U, next_parent_ptr)
    THEN AssignParentsTwoSteps(U, SetParent(B, t[i], parent_ptr), t, i + 1,
                               parent_ptr, next_parent_ptr)
    ELSE LET after == Node(U, next_parent_ptr).next
             to == IF after # None /\ ~(LowerBound(B, t[i]) < LowerBound(U, after))
                   THEN after ELSE next_parent_ptr
         IN AssignParentsTwoSteps(U, SetParent(B, t[i], to), t, i + 1, to, Node(U, to).next)

\* The second pass of fill_from_beneath over the views t[i..].
RECURSIVE AssignParents(_, _, _, _, _, _)
AssignParents(U, B, t, i, parent_ptr, next_parent_ptr) ==
    IF i > Len(t) THEN B
    ELSE IF next_parent_ptr = None \/ LowerBound(B, t[i]) < LowerBound(U, next_parent_ptr)
    THEN AssignParents(U, SetParent(B, t[i], parent_ptr), t, i + 1, parent_ptr, next_parent_ptr)
    ELSE AssignParents(U, SetParent(B, t[i], next_parent_ptr), t, i + 1,
                       next_parent_ptr, Node(U, next_parent_ptr).next)

FillFromBeneath(U, B, eps) ==
    LET u1 == Fill(U, LayerEntries(B), eps)
    IN [upper |-> u1,
        beneath |-> AssignParents(u1, B, Traversal(B), 1, u1.first, Node(u1, u1.first).next)]

\* The last loop of replace, with kite never advanced.
RECURSIVE ReplaceParentsKiteStays(_, _, _, _, _, _, _)
ReplaceParentsKiteStays(U, B, kid, kite, new_parent_tail, data_tail, fuel) ==
    LET b1 == SetParent(B, kid, kite)
    IN IF kid = data_tail \/ fuel = 0 THEN [beneath |-> b1, panic |-> FALSE]
       ELSE IF Node(b1, kid).next = None THEN [beneath |-> b1, panic |-> TRUE]
       ELSE ReplaceParentsKiteStays(U, b1, Node(b1, kid).next, kite, new_parent_tail,
                                    data_tail, fuel - 1)

\* The last loop of replace, without its break at data_tail: it runs to the chain's end.
RECURSIVE ReplaceParentsPastTail(_, _, _, _, _, _, _)
ReplaceParentsPastTail(U, B, kid, kite, new_parent_tail, data_tail, fuel) ==
    LET next_kite == Node(U, kite).next
        is_match == \/ kite = new_parent_tail
                    \/ IF next_kite # None
                       THEN LowerBound(B, kid) < LowerBound(U, next_kite)
                       ELSE TRUE
        kite1 == IF is_match THEN kite ELSE next_kite
        b1 == SetParent(B, kid, kite1)
    IN IF Node(b1, kid).next = None \/ fuel = 0 THEN [beneath |-> b1, panic |-> FALSE]
       ELSE ReplaceParentsPastTail(U, b1, Node(b1, kid).next, kite1, new_parent_tail,
                                   data_tail, fuel - 1)

\* The last loop of replace, from kid on; panic: next().unwrap() met None.
RECURSIVE ReplaceParents(_, _, _, _, _, _, _)
ReplaceParents(U, B, kid, kite, new_parent_tail, data_tail, fuel) ==
    LET next_kite == Node(U, kite).next
        is_match == \/ kite = new_parent_tail
                    \/ IF next_kite # None
                       THEN LowerBound(B, kid) < LowerBound(U, next_kite)
                       ELSE TRUE
        kite1 == IF is_match THEN kite ELSE next_kite
        b1 == SetParent(B, kid, kite1)
    IN IF kid = data_tail \/ fuel = 0 THEN [beneath |-> b1, panic |-> FALSE]
       ELSE IF Node(b1, kid).next = None THEN [beneath |-> b1, panic |-> TRUE]
       ELSE ReplaceParents(U, b1, Node(b1, kid).next, kite1, new_parent_tail, data_tail, fuel - 1)

\* replace, with the first loop's early exit at data_tail left out: the entries run
\* to the end of the chain beneath.
ReplaceNoEarlyExit(U, B, poison_head, poison_tail, data_head, data_tail, eps) ==
    LET r == ChainRange(B, data_head, None)
        entries == AsSeq([i \in 1..Len(r) |-> <<LowerBound(B, r[i]), r[i]>>])
        blueprint == MakeSegmentation(entries, eps)
        new_innards == AsSeq([i \in 1..Len(blueprint) |->
                                FromModelNVec(blueprint[i][1], blueprint[i][2])])
        rep == ListReplace(U, poison_head, poison_tail, new_innards)
        par == ReplaceParents(rep.list, B, data_head, rep.new_head, rep.new_tail, data_tail,
                              Len(B.arena.items) + 1)
    IN [upper |-> rep.list, beneath |-> par.beneath, panic |-> par.panic,
        new_head |-> rep.new_head, new_tail |-> rep.new_tail]

Replace(U, B, poison_head, poison_tail, data_head, data_tail, eps) ==
    LET r == ChainRange(B, data_head, data_tail)
        entries == AsSeq([i \in 1..Len(r) |-> <<LowerBound(B, r[i]), r[i]>>])
        blueprint == MakeSegmentation(entries, eps)
        new_innards == AsSeq([i \in 1..Len(blueprint) |->
                                FromModelNVec(blueprint[i][1], blueprint[i][2])])
        rep == ListReplace(U, poison_head, poison_tail, new_innards)
        par == ReplaceParents(rep.list, B, data_head, rep.new_head, rep.new_tail, data_tail,
                              Len(B.arena.items) + 1)
    IN [upper |-> rep.list, beneath |-> par.beneath, panic |-> par.panic,
        new_head |-> rep.new_head, new_tail |-> rep.new_tail]

(***************************************************************************)
(* MemoryBTreeLayer: a chain of nodes, each a sorted run of at most FANOUT *)
(* <<key, value>> entries.  An address is <<i>>, i the node's place in    *)
(* `nodes`; nodes are never freed (there is no deletion).  The first node  *)
(* of the chain is the node at <<1>>.  An Option is None or <<v>>.         *)
(***************************************************************************)
FANOUT == 2

BTreeNodeEmpty == [entries |-> <<>>, next |-> None, parent |-> None]

BTreeLayerEmpty == [nodes |-> <<>>]

AddNode(layer, node) == [nodes |-> Append(layer.nodes, node)]

\* lower_bound = entries[0].key; an empty node has K's minimum, 0.
BTreeNode(layer, ptr) == layer.nodes[ptr[1]]

BTreeLowerBound(layer, ptr) ==
    IF BTreeNode(layer, ptr).entries = <<>> THEN 0 ELSE BTreeNode(layer, ptr).entries[1][1]

BTreeSetParent(layer, ptr, parent) == [layer EXCEPT !.nodes[ptr[1]].parent = parent]

RECURSIVE BTreeWalk(_, _, _)
BTreeWalk(layer, ptr, fuel) ==
    IF ptr = None \/ fuel = 0 THEN <<>>
    ELSE <<ptr>> \o BTreeWalk(layer, BTreeNode(layer, ptr).next, fuel - 1)

\* full_range: the chain from the first node through next links.
FullRange(layer) ==
    IF layer.nodes = <<>> THEN <<>> ELSE BTreeWalk(layer, <<1>>, Len(layer.nodes))

\* The (lower bound, address) entries an upper layer is filled with.
RangeEntries(layer) ==
    LET r == FullRange(layer)
    IN AsSeq([i \in 1..Len(r) |-> <<BTreeLowerBound(layer, r[i]), r[i]>>])

\* Insert sorted; an entry of the same key is replaced.
InsertSorted(entries, key, value) ==
    IF \E i \in 1..Len(entries) : entries[i][1] = key
    THEN AsSeq([i \in 1..Len(entries) |->
                    IF entries[i][1] = key THEN <<key, value>> ELSE entries[i]])
    ELSE LET n == Cardinality({i \in 1..Len(entries) : entries[i][1] < key})
         IN SubSeq(entries, 1, n) \o <<<<key, value>>>> \o SubSeq(entries, n + 1, Len(entries))

\* search_exact: the value of key, None when the key is absent.
SearchExact(entries, key) ==
    IF \E i \in 1..Len(entries) : entries[i][1] = key
    THEN <<entries[CHOOSE i \in 1..Len(entries) : entries[i][1] = key][2]>>
    ELSE None

\* search_lub: the value at the largest entry key <= key; the first value when every
\* entry key exceeds key.
SearchLub(entries, key) ==
    LET le == {i \in 1..Len(entries) : entries[i][1] <= key}
    IN IF le = {} THEN entries[1][2] ELSE entries[SetMax(le)][2]

\* insert(key, value, ptr): insert sorted into the node at ptr; a node of more than
\* FANOUT entries keeps its first ceil(FANOUT / 2) and the rest goes to a new node,
\* linked in as its right sibling.  prop: None, or <<split key, new node's address>>.
BTreeLayerInsert(layer, key, value, ptr) ==
    LET e == InsertSorted(BTreeNode(layer, ptr).entries, key, value)
        keep == (FANOUT + 1) \div 2
        new_ptr == <<Len(layer.nodes) + 1>>
        new_node == [entries |-> SubSeq(e, keep + 1, Len(e)),
                     next |-> BTreeNode(layer, ptr).next, parent |-> None]
    IN IF Len(e) <= FANOUT
       THEN [layer |-> [layer EXCEPT !.nodes[ptr[1]].entries = e], prop |-> None]
       ELSE [layer |-> AddNode([layer EXCEPT !.nodes[ptr[1]].entries = SubSeq(e, 1, keep),
                                             !.nodes[ptr[1]].next = new_ptr], new_node),
             prop |-> <<e[keep + 1][1], new_ptr>>]

\* fill(iter): the layer is rebuilt with the entries packed in order, `count` to a
\* node; no entries make one empty node.
RECURSIVE BTreePack(_, _, _)
BTreePack(layer, entries, count) ==
    IF entries = <<>> THEN layer
    ELSE LET n == IF Len(entries) < count THEN Len(entries) ELSE count
             ptr == <<Len(layer.nodes) + 1>>
             linked == IF layer.nodes = <<>> THEN layer
                       ELSE [layer EXCEPT !.nodes[Len(layer.nodes)].next = ptr]
         IN BTreePack(AddNode(linked, [BTreeNodeEmpty EXCEPT !.entries = SubSeq(entries, 1, n)]),
                      SubSeq(entries, n + 1, Len(entries)), count)

BTreeFill(entries, count) ==
    IF entries = <<>> THEN AddNode(BTreeLayerEmpty, BTreeNodeEmpty)
    ELSE BTreePack(BTreeLayerEmpty, entries, count)

\* Every child named by the node at ptr gets ptr as its parent.
RECURSIVE SetParents(_, _, _)
SetParents(below, entries, ptr) ==
    IF entries = <<>> THEN below
    ELSE SetParents(BTreeSetParent(below, Head(entries)[2], ptr), Tail(entries), ptr)

RECURSIVE SetAllParents(_, _, _)
SetAllParents(below, layer, ptrs) ==
    IF ptrs = <<>> THEN below
    ELSE SetAllParents(SetParents(below, BTreeNode(layer, Head(ptrs)).entries, Head(ptrs)),
                       layer, Tail(ptrs))

(***************************************************************************)
(* The components of the layout [btree_top(), btree(FANOUT), btree(FANOUT)] *)
(* and the index they make.  A propagated split is <<key, address>>        *)
(* (PropagateInsert::Single); B-tree layers propagate nothing else.        *)
(***************************************************************************)
BaseEmpty == AddNode(BTreeLayerEmpty, BTreeNodeEmpty)

BaseBuild(entries, count) == BTreeFill(entries, count)

\* insert, propagating the inserted key in place of the new node's lower bound.
BaseInsertPropagatesKey(B, ptr, key, value) ==
    LET r == BTreeLayerInsert(B, key, value, ptr)
    IN [layer |-> r.layer, prop |-> IF r.prop = None THEN None ELSE <<key, r.prop[2]>>]

\* if let Some((key, address)) = inner.insert(key, value, ptr): Single(key, address).
BaseInsert(B, ptr, key, value) == BTreeLayerInsert(B, key, value, ptr)

BaseSearch(B, ptr, key) == SearchExact(BTreeNode(B, ptr).entries, key)

\* search, always answering with the node's first child.
InternalSearchFirst(I, ptr, key) == BTreeNode(I, ptr).entries[1][2]

\* search, taking the largest entry key strictly below key.
InternalSearchStrict(I, ptr, key) == SearchLub(BTreeNode(I, ptr).entries, key - 1)

InternalSearch(I, ptr, key) == SearchLub(BTreeNode(I, ptr).entries, key)

\* The layer filled from the full range of the layer beneath, which gets its parents.
InternalBuild(B, count) ==
    LET layer == BTreeFill(RangeEntries(B), count)
    IN [layer |-> layer, base |-> SetAllParents(B, layer, FullRange(layer))]

\* insert of a propagated split into the node at ptr; the children of the nodes it
\* touched get their parents.
InternalInsert(I, B, ptr, prop) ==
    LET r == BTreeLayerInsert(I, prop[1], prop[2], ptr)
        touched == IF r.prop = None THEN <<ptr>> ELSE <<ptr, r.prop[2]>>
    IN [layer |-> r.layer, base |-> SetAllParents(B, r.layer, touched), prop |-> r.prop]

\* PropogateInsert::Rebuild.
RebuildProp == <<"Rebuild">>

\* insert of Rebuild, the layer beneath left as it was.
InternalRebuildKeepsParents(B, count) ==
    [layer |-> BTreeFill(RangeEntries(B), count), base |-> B, prop |-> RebuildProp]

\* insert of Rebuild: the layer is filled from the full range of the layer beneath,
\* `count` entries to a node, and Rebuild is returned.
InternalRebuild(B, count) ==
    LET r == InternalBuild(B, count)
    IN [layer |-> r.layer, base |-> r.base, prop |-> RebuildProp]

\* BTreeMap::insert.
MapInsert(T, key, address) ==
    [k \in DOMAIN T \cup {key} |-> IF k = key THEN address ELSE T[k]]

\* search, always answering with the map's first entry.
TopSearchFirst(T, key) == T[SetMin(DOMAIN T)]

\* search, with range(..key) in place of range(..=key).
TopSearchStrict(T, key) ==
    LET lt == {k \in DOMAIN T : k < key}
    IN IF lt # {} THEN T[SetMax(lt)] ELSE T[SetMin(DOMAIN T)]

\* range(..=key).next_back(), or else range(..).next().
TopSearch(T, key) ==
    LET le == {k \in DOMAIN T : k <= key}
    IN IF le # {} THEN T[SetMax(le)] ELSE T[SetMin(DOMAIN T)]

\* PropagateInsert::Replace { .. }; a Single is the pair <<key, address>>.
ReplaceProp == <<"Replace">>

\* insert, with `base.set_parent(address, ())` left out.
TopInsertNoParent(T, I, prop) ==
    IF Len(prop) = 1
    THEN [top |-> T, base |-> I, panic |-> TRUE]
    ELSE [top |-> MapInsert(T, prop[1], prop[2]), base |-> I, panic |-> FALSE]

\* insert(base, prop): Single puts (key, address) in the map and sets the parent of
\* address; Replace reaches unimplemented!() and panics.
TopInsert(T, I, prop) ==
    IF Len(prop) = 1
    THEN [top |-> T, base |-> I, panic |-> TRUE]
    ELSE [top |-> MapInsert(T, prop[1], prop[2]),
          base |-> BTreeSetParent(I, prop[2], Unit),
          panic |-> FALSE]

RECURSIVE TopBuildFrom(_, _, _)
TopBuildFrom(T, I, entries) ==
    IF entries = <<>> THEN [top |-> T, base |-> I]
    ELSE TopBuildFrom(MapInsert(T, Head(entries)[1], Head(entries)[2]),
                      BTreeSetParent(I, Head(entries)[2], Unit), Tail(entries))

\* build, with `parent.set(())` left out.
TopBuildNoParents(I) == [top |-> TopBuildFrom(<<>>, I, RangeEntries(I)).top, base |-> I]

\* build, with only the first node of the layer beneath put in the map.
TopBuildFirstOnly(I) == TopBuildFrom(<<>>, I, SubSeq(RangeEntries(I), 1, 1))

TopBuild(I) == TopBuildFrom(<<>>, I, RangeEntries(I))

IndexOfLayers(T, I, B) == [top |-> T, internal |-> I, base |-> B]

IndexBuild(entries, count) ==
    LET b == BaseBuild(entries, count)
        i == InternalBuild(b, count)
        t == TopBuild(i.layer)
    IN IndexOfLayers(t.top, t.base, i.base)

IndexEmpty ==
    LET i == InternalBuild(BaseEmpty, FANOUT)
        t == TopBuild(i.layer)
    IN IndexOfLayers(t.top, t.base, i.base)

\* The descent of search and insert: top, then the internal layer.
Descend(X, key) == InternalSearch(X.internal, TopSearch(X.top, key), key)

IndexSearch(X, key) == BaseSearch(X.base, Descend(X, key), key)

\* insert(key, value): descend, insert into the base, and carry a split upward through
\* the parent of the node it came from.  panic: a node on the way up has no parent.
IndexInsert(X, key, value) ==
    LET ptr == Descend(X, key)
        r0 == BaseInsert(X.base, ptr, key, value)
        up == BTreeNode(r0.layer, ptr).parent
    IN IF r0.prop = None THEN [index |-> [X EXCEPT !.base = r0.layer], panic |-> FALSE]
       ELSE IF up = None THEN [index |-> [X EXCEPT !.base = r0.layer], panic |-> TRUE]
       ELSE LET r1 == InternalInsert(X.internal, r0.layer, up, r0.prop)
            IN IF r1.prop = None
               THEN [index |-> IndexOfLayers(X.top, r1.layer, r1.base), panic |-> FALSE]
               ELSE LET t == TopInsert(X.top, r1.layer, r1.prop)
                    IN [index |-> IndexOfLayers(t.top, t.base, r1.base), panic |-> FALSE]

(***************************************************************************)
(* GlobalStore and LocalStore (store.rs).  The world is one record:        *)
(*   disk           the pages the marble store holds, page id -> bytes     *)
(*   open           a GlobalStore value exists                             *)
(*   cache, active_stores, catalog   the fields of GlobalStoreInner        *)
(*   handles        the live LocalStore values, each [ident, id, catalog]  *)
(*   calls          the calls the last operation made on the marble store  *)
(* Bytes are sequences of naturals; an Option is None or <<v>>, and so is  *)
(* a Result whose error is not told apart.                                 *)
(***************************************************************************)
\* The cache threshold of write_page (10_000 in store.rs), scaled down.
CACHE_SIZE == 2

GLOBAL_STORE_CATALOG_ID == 0

\* The elements of a set of naturals in ascending order.
RECURSIVE Ascending(_)
Ascending(S) == IF S = {} THEN <<>> ELSE <<SetMin(S)>> \o Ascending(S \ {SetMin(S)})

RemoveAt(s, i) == SubSeq(s, 1, i - 1) \o SubSeq(s, i + 1, Len(s))

\* IDAllocator: the ids below `next` are allocated except those in `freed`;
\* allocate hands out the least free id.
IdsDefault == [next |-> 0, freed |-> {}]

IdsAllocate(ids) ==
    IF ids.freed # {}
    THEN [id |-> SetMin(ids.freed), ids |-> [ids EXCEPT !.freed = @ \ {SetMin(ids.freed)}]]
    ELSE [id |-> ids.next, ids |-> [ids EXCEPT !.next = @ + 1]]

\* GlobalStoreCatalog::default: the zero page is reserved for the global catalog.
GlobalStoreCatalogDefault == [ids |-> IdsAllocate(IdsDefault).ids, registry |-> <<>>]

\* C::default() of the local catalog type (TestCatalog: entries, id).
CatalogDefault == [entries |-> <<>>, id |-> 0]

\* bincode of a TestCatalog: the length of entries, the entries, the id.
EncodeCatalog(c) == <<Len(c.entries)>> \o c.entries \o <<c.id>>

\* bincode::deserialize to a TestCatalog: <<catalog>>, or None for an error (the
\* bytes end before the value does).
DecodeCatalog(bytes) ==
    IF Len(bytes) >= 2 /\ Len(bytes) >= bytes[1] + 2
    THEN <<[entries |-> SubSeq(bytes, 2, bytes[1] + 1), id |-> bytes[bytes[1] + 2]]>>
    ELSE None

\* bincode of a GlobalStoreCatalog: next, the freed ids, then the registry pairs.
RECURSIVE EncodeRegistry(_, _)
EncodeRegistry(reg, names) ==
    IF names = <<>> THEN <<>>
    ELSE <<Head(names), reg[Head(names)]>> \o EncodeRegistry(reg, Tail(names))

EncodeGlobalCatalog(c) ==
    <<c.ids.next, Cardinality(c.ids.freed)>> \o Ascending(c.ids.freed)
        \o <<Cardinality(DOMAIN c.registry)>>
        \o EncodeRegistry(c.registry, Ascending(DOMAIN c.registry))

DecodeGlobalCatalog(bytes) ==
    IF Len(bytes) >= 3 /\ Len(bytes) >= bytes[2] + 3
          /\ Len(bytes) >= bytes[2] + 3 + 2 * bytes[bytes[2] + 3]
    THEN LET nf == bytes[2]
             nr == bytes[nf + 3]
             at(k) == nf + 3 + 2 * k
         IN <<[ids |-> [next |-> bytes[1], freed |-> {bytes[2 + i] : i \in 1..nf}],
               registry |-> [name \in {bytes[at(k) - 1] : k \in 1..nr} |->
                                bytes[at(CHOOSE k \in 1..nr : bytes[at(k) - 1] = name)]]]>>
    ELSE None

\* marble's write_batch of every page in `pages`.
WriteBatch(S, pages) ==
    [S EXCEPT !.disk = [id \in DOMAIN S.disk \cup DOMAIN pages |->
                            IF id \in DOMAIN pages THEN pages[id] ELSE S.disk[id]],
              !.calls = Append(@, [call |-> "write_batch", ids |-> DOMAIN pages])]

\* marble's maintenance.
Maintenance(S) == [S EXCEPT !.calls = Append(@, [call |-> "maintenance", ids |-> {}])]

\* flush_cache, without its cache.clear().
FlushCacheKeepsCache(S) == WriteBatch(S, S.cache)

\* GlobalStoreInner::flush_cache.
FlushCache(S) == [WriteBatch(S, S.cache) EXCEPT !.cache = <<>>]

\* ObjectStore::write_page, of bytes already serialized.
WritePage(S, bytes, id) ==
    LET S1 == [S EXCEPT !.cache = MapInsert(@, id, bytes)]
    IN IF Cardinality(DOMAIN S1.cache) > CACHE_SIZE THEN FlushCache(S1) ELSE S1

\* ObjectStore::write_page where the store's write_batch answers with an error when
\* io_ok is false: the `?` of flush_cache returns before cache.clear(), and the
\* batch has written nothing.  [ok, store]
WritePageResult(S, bytes, id, io_ok) ==
    LET S1 == [S EXCEPT !.cache = MapInsert(@, id, bytes)]
    IN IF Cardinality(DOMAIN S1.cache) > CACHE_SIZE /\ ~io_ok
       THEN [ok |-> FALSE,
             store |-> [S1 EXCEPT !.calls = Append(@, [call |-> "write_batch",
                                                       ids |-> DOMAIN S1.cache])]]
       ELSE [ok |-> TRUE, store |-> WritePage(S, bytes, id)]

\* ObjectStore::read_page, before deserialization, never looking into the cache.
ReadPageStoreOnly(S, id) ==
    IF id \in DOMAIN S.disk THEN <<S.disk[id]>> ELSE None

\* ObjectStore::read_page, before deserialization: the cache, then the store.
ReadPage(S, id) ==
    IF id \in DOMAIN S.cache THEN <<S.cache[id]>>
    ELSE IF id \in DOMAIN S.disk THEN <<S.disk[id]>>
    ELSE None

ObjectStoreAllocatePage(S) ==
    LET a == IdsAllocate(S.catalog.ids)
    IN [id |-> a.id, store |-> [S EXCEPT !.catalog.ids = a.ids]]

\* The store with no GlobalStore value over the pages of `disk`.
Closed(disk) ==
    [disk |-> disk, open |-> FALSE, cache |-> <<>>, active_stores |-> {},
     catalog |-> None, handles |-> <<>>, calls |-> <<>>]

\* GlobalStore::load, never reading the zero page: the catalog is the default one.
GlobalStoreLoadFresh(S) ==
    LET c == GlobalStoreCatalogDefault
        S1 == WriteBatch(S, (GLOBAL_STORE_CATALOG_ID :> EncodeGlobalCatalog(c)))
    IN [store |-> [S1 EXCEPT !.open = TRUE, !.catalog = c], err |-> FALSE]

\* GlobalStore::load.  [store, err]
GlobalStoreLoad(S) ==
    IF GLOBAL_STORE_CATALOG_ID \in DOMAIN S.disk
    THEN LET c == DecodeGlobalCatalog(S.disk[GLOBAL_STORE_CATALOG_ID])
         IN IF c = None THEN [store |-> S, err |-> TRUE]
            ELSE [store |-> [S EXCEPT !.open = TRUE, !.catalog = c[1]], err |-> FALSE]
    ELSE LET c == GlobalStoreCatalogDefault
             S1 == WriteBatch(S, (GLOBAL_STORE_CATALOG_ID :> EncodeGlobalCatalog(c)))
         IN [store |-> [S1 EXCEPT !.open = TRUE, !.catalog = c], err |-> FALSE]

\* The test of load_local_store's first line, never finding the name active.
AlreadyLoadedNever(S, ident) == FALSE

AlreadyLoaded(S, ident) == ident \in S.active_stores

\* The live handles with h among them.  They are kept in the order of their names;
\* the order means nothing.
AddHandle(hs, h) ==
    LET n == Cardinality({i \in 1..Len(hs) : hs[i].ident <= h.ident})
    IN SubSeq(hs, 1, n) \o <<h>> \o SubSeq(hs, n + 1, Len(hs))

\* GlobalStore::load_local_store.  [store, panic, err]; on success the new LocalStore
\* is among handles.
LoadLocalStore(S, ident) ==
    IF AlreadyLoaded(S, ident) THEN [store |-> S, panic |-> TRUE, err |-> FALSE]
    ELSE LET known == ident \in DOMAIN S.catalog.registry
             a == ObjectStoreAllocatePage(S)
             id == IF known THEN S.catalog.registry[ident] ELSE a.id
             S1 == IF known THEN S
                   ELSE [a.store EXCEPT !.catalog.registry = MapInsert(@, ident, id)]
             page == ReadPage(S1, id)
             read == IF page = None THEN None ELSE DecodeCatalog(page[1])
             catalog == IF page = None THEN CatalogDefault ELSE read[1]
             S2 == IF page = None THEN WritePage(S1, EncodeCatalog(catalog), id) ELSE S1
         IN IF page # None /\ read = None
            THEN [store |-> S1, panic |-> FALSE, err |-> TRUE]
            ELSE [store |-> [S2 EXCEPT !.active_stores = @ \cup {ident},
                                       !.handles = AddHandle(@, [ident |-> ident, id |-> id,
                                                                 catalog |-> catalog])],
                  panic |-> FALSE, err |-> FALSE]

\* GlobalStore::flush, writing the catalog to the cache and leaving the cache as it is.
GlobalStoreFlushCatalogOnly(S) ==
    WritePage(S, EncodeGlobalCatalog(S.catalog), GLOBAL_STORE_CATALOG_ID)

\* GlobalStore::flush.
GlobalStoreFlush(S) ==
    FlushCache(WritePage(S, EncodeGlobalCatalog(S.catalog), GLOBAL_STORE_CATALOG_ID))

\* Rc::strong_count(&self.inner), taken to be 1 whatever LocalStores live.
StrongCountOne(S) == 1

\* Rc::strong_count(&self.inner): the GlobalStore and one clone in every LocalStore.
StrongCount(S) == 1 + Len(S.handles)

\* Drop for GlobalStore.  [store, panic]
GlobalStoreDrop(S) ==
    IF StrongCount(S) # 1 THEN [store |-> S, panic |-> TRUE]
    ELSE [store |-> [Closed(Maintenance(GlobalStoreFlush(S)).disk) EXCEPT
                        !.calls = Maintenance(GlobalStoreFlush(S)).calls],
          panic |-> FALSE]

\* LocalStore::flush, writing nothing.
LocalStoreFlushNothing(S, h) == S

\* LocalStore::flush of the handle h.
LocalStoreFlush(S, h) == WritePage(S, EncodeCatalog(h.catalog), h.id)

\* active_stores.remove(&self.ident), removing nothing.
DeactivateNothing(S, ident) == S

\* active_stores.remove(&self.ident).
Deactivate(S, ident) == [S EXCEPT !.active_stores = @ \ {ident}]

\* Drop for LocalStore, of the i-th handle.
LocalStoreDrop(S, i) ==
    [LocalStoreFlush(Deactivate(S, S.handles[i].ident), S.handles[i]) EXCEPT
        !.handles = RemoveAt(@, i)]

(***************************************************************************)
(* The page operations of ObjectStore (store.rs 193-259) and the typed     *)
(* values the tests write: a TestCatalog, and a byte array [u8; 1] (held   *)
(* as a record of one field, bytes).                                       *)
(***************************************************************************)
\* The ids the allocator holds as allocated.
IdsAllocated(ids) == {i \in 0..(ids.next - 1) : i \notin ids.freed}

\* IDAllocator::free: whether id was allocated, and the allocator without it.
IdsFree(ids, id) ==
    IF id \in IdsAllocated(ids)
    THEN [freed |-> TRUE, ids |-> [ids EXCEPT !.freed = @ \cup {id}]]
    ELSE [freed |-> FALSE, ids |-> ids]

\* IDAllocator::clear: nothing is allocated.
IdsClear(ids) == IdsDefault

\* marble's write_batch of (id, None) for every id of ids.
DeleteBatch(S, ids) ==
    [S EXCEPT !.disk = [id \in DOMAIN S.disk \ ids |-> S.disk[id]],
              !.calls = Append(@, [call |-> "write_batch", ids |-> ids])]

\* HashMap::remove.
MapRemove(T, key) == [k \in DOMAIN T \ {key} |-> T[k]]

\* ObjectStore::free_page, answering true without looking at the allocator.
FreePageAlways(S, id) ==
    [ret |-> TRUE,
     store |-> [DeleteBatch([S EXCEPT !.catalog.ids = IdsFree(@, id).ids], {id})
                   EXCEPT !.cache = MapRemove(@, id)]]

\* ObjectStore::free_page, without its cache.remove(&id).
FreePageKeepsCache(S, id) ==
    LET f == IdsFree(S.catalog.ids, id)
    IN IF f.freed
       THEN [ret |-> TRUE, store |-> DeleteBatch([S EXCEPT !.catalog.ids = f.ids], {id})]
       ELSE [ret |-> FALSE, store |-> S]

\* ObjectStore::free_page.  [ret, store]
FreePage(S, id) ==
    LET f == IdsFree(S.catalog.ids, id)
    IN IF f.freed
       THEN [ret |-> TRUE,
             store |-> [DeleteBatch([S EXCEPT !.catalog.ids = f.ids], {id})
                           EXCEPT !.cache = MapRemove(@, id)]]
       ELSE [ret |-> FALSE, store |-> S]

\* ObjectStore::clear.
ClearPages(S) ==
    LET batch == IdsAllocated(S.catalog.ids) \cup DOMAIN S.cache
    IN [DeleteBatch([S EXCEPT !.cache = <<>>], batch) EXCEPT
           !.catalog.ids = IdsClear(@)]

\* bincode::serialize of a typed value.
Encode(pv) ==
    CASE pv.type = "catalog" -> EncodeCatalog(pv.val)
      [] pv.type = "bytes" -> pv.val.bytes
      [] pv.type = "global" -> EncodeGlobalCatalog(pv.val)

\* bincode::deserialize to the type: <<value>>, or None for an error.
DecodeAs(type, bytes) ==
    CASE type = "catalog" -> DecodeCatalog(bytes)
      [] type = "bytes" -> IF Len(bytes) >= 1 THEN <<[bytes |-> SubSeq(bytes, 1, 1)]>>
                           ELSE None
      [] type = "global" -> DecodeGlobalCatalog(bytes)

\* read_page::<P>, with a missing page answered as an error.
ReadPageAsMissingIsError(S, id, type) ==
    LET page == ReadPage(S, id)
    IN IF page = None \/ DecodeAs(type, page[1]) = None
       THEN [ok |-> FALSE, value |-> None]
       ELSE [ok |-> TRUE, value |-> DecodeAs(type, page[1])]

\* read_page::<P>, with a page that does not decode answered as a missing page.
ReadPageAsLenient(S, id, type) ==
    LET page == ReadPage(S, id)
    IN IF page = None \/ DecodeAs(type, page[1]) = None
       THEN [ok |-> TRUE, value |-> None]
       ELSE [ok |-> TRUE, value |-> DecodeAs(type, page[1])]

\* ObjectStore::read_page::<P>: Ok(Some(value)), Ok(None), or Err.
ReadPageAs(S, id, type) ==
    LET page == ReadPage(S, id)
    IN IF page = None THEN [ok |-> TRUE, value |-> None]
       ELSE IF DecodeAs(type, page[1]) = None THEN [ok |-> FALSE, value |-> None]
       ELSE [ok |-> TRUE, value |-> DecodeAs(type, page[1])]

(***************************************************************************)
(* SpecList: any sequence of insert_after, insert_before and clear on a    *)
(* list made by new.                                                       *)
(***************************************************************************)
MaxNodes == 4
MaxPayload == 2
MaxGeneration == 2

Payloads == 1..MaxPayload

ListIdle == list = None /\ lop = None
PGMIdle == lower = None /\ upper = None /\ pop = None
IndexIdle == base = None /\ internal = None /\ top = None /\ contents = None /\ iop = None
StoreIdle == store = None /\ sop = None

ListInit ==
    /\ \E inner \in Payloads :
          /\ list = ListNew(inner)
          /\ lop = [name |-> "new", inner |-> inner, ptr |-> None, ret |-> ListNewPtr,
                    before |-> ListNew(inner)]
    /\ PGMIdle
    /\ IndexIdle
    /\ StoreIdle

ListInsertAfter ==
    \E inner \in Payloads, ptr \in ArenaIndices(list.arena) :
        /\ ListLen(list) < MaxNodes
        /\ list' = InsertAfter(list, inner, ptr)
        /\ lop' = [name |-> "insert_after", inner |-> inner, ptr |-> ptr,
                   ret |-> InsertPtr(list), before |-> list]
        /\ UNCHANGED <<pgmVars, indexVars, storeVars>>

ListInsertBefore ==
    \E inner \in Payloads, ptr \in ArenaIndices(list.arena) :
        /\ ListLen(list) < MaxNodes
        /\ list' = InsertBefore(list, inner, ptr)
        /\ lop' = [name |-> "insert_before", inner |-> inner, ptr |-> ptr,
                   ret |-> InsertPtr(list), before |-> list]
        /\ UNCHANGED <<pgmVars, indexVars, storeVars>>

ListClear ==
    \E inner \in Payloads :
        /\ list.arena.generation < MaxGeneration
        /\ list' = Clear(list, inner)
        /\ lop' = [name |-> "clear", inner |-> inner, ptr |-> None,
                   ret |-> ClearPtr(list), before |-> list]
        /\ UNCHANGED <<pgmVars, indexVars, storeVars>>

ListNext == ListInsertAfter \/ ListInsertBefore \/ ListClear

SpecList == ListInit /\ [][ListNext]_vars

(***************************************************************************)
(* SpecReuse: insert_after, insert_before, clear and replace on a list     *)
(* made by new, with the history of the addresses the list has freed.      *)
(* lop.ret is the set of addresses the operation handed out, lop.freed the *)
(* set of <<address, operation>> pairs freed so far.                       *)
(***************************************************************************)
MaxReuseNodes == 2
MaxReuseGeneration == 3
MaxReplaceLen == 1

Freed == {f[1] : f \in lop.freed}

ReuseInit ==
    /\ list = ListNew(1)
    /\ lop = [name |-> "new", ret |-> {ListNewPtr}, freed |-> {}]
    /\ PGMIdle
    /\ IndexIdle
    /\ StoreIdle

ReuseInsertAfter ==
    \E ptr \in ArenaIndices(list.arena) :
        /\ ListLen(list) < MaxReuseNodes
        /\ list' = InsertAfter(list, 1, ptr)
        /\ lop' = [name |-> "insert_after", ret |-> {InsertPtr(list)}, freed |-> lop.freed]
        /\ UNCHANGED <<pgmVars, indexVars, storeVars>>

ReuseInsertBefore ==
    \E ptr \in ArenaIndices(list.arena) :
        /\ ListLen(list) < MaxReuseNodes
        /\ list' = InsertBefore(list, 1, ptr)
        /\ lop' = [name |-> "insert_before", ret |-> {InsertPtr(list)}, freed |-> lop.freed]
        /\ UNCHANGED <<pgmVars, indexVars, storeVars>>

ReuseClear ==
    /\ list.arena.generation < MaxReuseGeneration
    /\ list' = Clear(list, 1)
    /\ lop' = [name |-> "clear", ret |-> {ClearPtr(list)},
               freed |-> lop.freed \cup {<<a, "clear">> : a \in ArenaIndices(list.arena)}]
    /\ UNCHANGED <<pgmVars, indexVars, storeVars>>

ReuseReplace ==
    LET chain == Traversal(list)
    IN \E i \in 1..Len(chain), n \in 1..MaxReplaceLen :
          \E j \in i..Len(chain) :
             LET r == ListReplace(list, chain[i], chain[j], [k \in 1..n |-> 1])
             IN /\ list.arena.generation + (j - i + 1) <= MaxReuseGeneration
                /\ ListLen(list) + n - (j - i + 1) <= MaxReuseNodes
                /\ list' = r.list
                /\ lop' = [name |-> "replace",
                           ret |-> Range(ChainRange(r.list, r.new_head, r.new_tail)),
                           freed |-> lop.freed \cup
                                     {<<chain[k], "replace">> : k \in i..j}]
                /\ UNCHANGED <<pgmVars, indexVars, storeVars>>

ReuseNext == ReuseInsertAfter \/ ReuseInsertBefore \/ ReuseClear \/ ReuseReplace

SpecReuse == ReuseInit /\ [][ReuseNext]_vars

(***************************************************************************)
(* SpecPGM: a layer beneath, filled from a set of keys and then changed by *)
(* single node insertions, and a PGM layer above it, built by              *)
(* fill_from_beneath and repaired by replace.                              *)
(***************************************************************************)
EPSILON == 0
EPSILON_BENEATH == 1
MaxLowerNodes == 5

Keys == 1..MaxKey

\* The entries (k, k) of a set of keys, in ascending key order.
RECURSIVE SortedEntries(_)
SortedEntries(S) ==
    IF S = {} THEN <<>> ELSE <<<<SetMin(S), SetMin(S)>>>> \o SortedEntries(S \ {SetMin(S)})

NoPop == [name |-> "new", built |-> FALSE,
          poison_head |-> None, poison_tail |-> None,
          data_head |-> None, data_tail |-> None, lower_before |-> None,
          upper_before |-> None, new_head |-> None, new_tail |-> None, panic |-> FALSE]

PGMInit ==
    /\ lower = PGMNew
    /\ upper = PGMNew
    /\ pop = NoPop
    /\ ListIdle
    /\ IndexIdle
    /\ StoreIdle

\* layer.fill(entries) on the layer beneath, once, before anything is built on it.
PGMFill ==
    \E S \in SUBSET Keys :
        /\ pop.name = "new"
        /\ S # {}
        /\ lower' = Fill(lower, SortedEntries(S), EPSILON_BENEATH)
        /\ pop' = [NoPop EXCEPT !.name = "fill"]
        /\ UNCHANGED <<upper, listVars, indexVars, storeVars>>

\* The keys k a new one-entry node may take after ptr: above every key of ptr and
\* below the lower bound of ptr's next.
FitsAfter(B, ptr, k) ==
    /\ Node(B, ptr).next # None
    /\ \A i \in 1..Len(Node(B, ptr).inner.data) : Node(B, ptr).inner.data[i][1] < k
    /\ k < LowerBound(B, Node(B, ptr).next)

\* Before the upper layer is built the layer beneath grows at its end.
PGMLowerAppend ==
    \E k \in Keys :
        /\ pop.name \in {"fill", "lower_append"}
        /\ ListLen(lower) < MaxLowerNodes - 1
        /\ FitsAfter(lower, Node(lower, lower.last).previous, k)
        /\ lower' = InsertAfter(lower, FromModelNVec(LinearModelOf(None, k), <<<<k, k>>>>),
                                Node(lower, lower.last).previous)
        /\ pop' = [NoPop EXCEPT !.name = "lower_append"]
        /\ UNCHANGED <<upper, listVars, indexVars, storeVars>>

PGMFillFromBeneath ==
    /\ pop.name \in {"fill", "lower_append"}
    /\ LET r == FillFromBeneath(upper, lower, EPSILON)
       IN /\ upper' = r.upper
          /\ lower' = r.beneath
          /\ pop' = [NoPop EXCEPT !.name = "fill_from_beneath", !.built = TRUE,
                                  !.lower_before = lower, !.upper_before = upper]
    /\ UNCHANGED <<listVars, indexVars, storeVars>>

\* Once the upper layer is built, the layer beneath changes: it gains a node of one
\* entry after ptr, which has no parent yet.
PGMLowerInsert ==
    \E ptr \in ArenaIndices(lower.arena), k \in Keys :
        /\ pop.name = "fill_from_beneath"
        /\ ListLen(lower) < MaxLowerNodes
        /\ FitsAfter(lower, ptr, k)
        /\ lower' = InsertAfter(lower, FromModelNVec(LinearModelOf(None, k), <<<<k, k>>>>), ptr)
        /\ pop' = [NoPop EXCEPT !.name = "lower_insert", !.built = TRUE]
        /\ UNCHANGED <<upper, listVars, indexVars, storeVars>>

\* What a caller of replace guarantees: [poison_head, poison_tail] is a run of the
\* upper chain without the sentinel, [data_head, data_tail] a run of the lower chain,
\* data_head is not below poison_head and data_tail is within poison_tail's key range.
ReplacePre(U, B, poison_head, poison_tail, data_head, data_tail) ==
    LET tu == Traversal(U)
        tb == Traversal(B)
    IN /\ poison_head \in Range(tu)
       /\ poison_tail \in Range(tu)
       /\ IndexOf(tu, poison_head) <= IndexOf(tu, poison_tail)
       /\ poison_tail # U.last
       /\ data_head \in Range(tb)
       /\ data_tail \in Range(tb)
       /\ IndexOf(tb, data_head) <= IndexOf(tb, data_tail)
       /\ LowerBound(U, poison_head) <= LowerBound(B, data_head)
       /\ LowerBound(B, data_tail) < LowerBound(U, Node(U, poison_tail).next)

\* replace answers a build or a change of the layer beneath; its arguments are any
\* the caller's guarantee allows.
PGMReplace ==
    /\ pop.name \in {"fill_from_beneath", "lower_insert"}
    /\ LET tu == Traversal(upper)
           tb == Traversal(lower)
       IN \E i \in 1..Len(tu), j \in 1..Len(tu), a \in 1..Len(tb), b \in 1..Len(tb) :
           /\ i <= j
           /\ a <= b
           /\ ReplacePre(upper, lower, tu[i], tu[j], tb[a], tb[b])
           /\ LET r == Replace(upper, lower, tu[i], tu[j], tb[a], tb[b], EPSILON)
              IN /\ upper' = r.upper
                 /\ lower' = r.beneath
                 /\ pop' = [name |-> "replace", built |-> TRUE,
                            poison_head |-> tu[i], poison_tail |-> tu[j],
                            data_head |-> tb[a], data_tail |-> tb[b],
                            lower_before |-> lower, upper_before |-> upper,
                            new_head |-> r.new_head, new_tail |-> r.new_tail,
                            panic |-> r.panic]
    /\ UNCHANGED <<listVars, indexVars, storeVars>>

PGMNext == PGMFill \/ PGMLowerAppend \/ PGMFillFromBeneath \/ PGMLowerInsert \/ PGMReplace

SpecPGM == PGMInit /\ [][PGMNext]_vars

(***************************************************************************)
(* SpecFill: a PGM layer filled again and again from sorted entries, the   *)
(* empty input among them.  pop remembers the input of the last fill and   *)
(* how many entries the layer held before it.                              *)
(***************************************************************************)
MaxFills == 2

\* The entries of the chain's nodes, in chain order.
RECURSIVE DataOf(_, _)
DataOf(L, ptrs) ==
    IF ptrs = <<>> THEN <<>> ELSE Node(L, Head(ptrs)).inner.data \o DataOf(L, Tail(ptrs))

\* The sum of the nodes' entry counts.
RECURSIVE CountOf(_, _)
CountOf(L, ptrs) ==
    IF ptrs = <<>> THEN 0 ELSE Len(Node(L, Head(ptrs)).inner.data) + CountOf(L, Tail(ptrs))

FillInit ==
    /\ lower = PGMNew
    /\ upper = PGMNew
    /\ pop = [name |-> "new", input |-> <<>>, had |-> 0]
    /\ ListIdle
    /\ IndexIdle
    /\ StoreIdle

FillAction ==
    \E S \in SUBSET Keys :
        /\ lower.arena.generation < MaxFills
        /\ lower' = Fill(lower, SortedEntries(S), EPSILON)
        /\ pop' = [name |-> "fill", input |-> SortedEntries(S),
                   had |-> CountOf(lower, Traversal(lower))]
        /\ UNCHANGED <<upper, listVars, indexVars, storeVars>>

SpecFill == FillInit /\ [][FillAction]_vars

(***************************************************************************)
(* SpecIndex: an index made by build from sorted entries, or by empty and  *)
(* then any sequence of inserts.  contents is what the index should        *)
(* hold: for each key <<v>>, v the value last given for it, or None.       *)
(***************************************************************************)
MaxIndexKey == 5

IndexKeys == 1..MaxIndexKey

Index == IndexOfLayers(top, internal, base)

\* The entries (k, f[k]) of the keys f has a value for, in ascending key order.
RECURSIVE EntriesOf(_, _)
EntriesOf(f, S) ==
    IF S = {} THEN <<>> ELSE <<<<SetMin(S), f[SetMin(S)][1]>>>> \o EntriesOf(f, S \ {SetMin(S)})

ContentEntries == EntriesOf(contents, {k \in IndexKeys : contents[k] # None})

IndexInit ==
    /\ top = IndexEmpty.top
    /\ internal = IndexEmpty.internal
    /\ base = IndexEmpty.base
    /\ contents = [k \in IndexKeys |-> None]
    /\ iop = [name |-> "empty", origin |-> "empty", count |-> FANOUT, panic |-> FALSE]
    /\ ListIdle
    /\ PGMIdle
    /\ StoreIdle

\* Index::build(entries): entries in ascending key order, packed count to a node.
IndexBuildAction ==
    \E f \in [IndexKeys -> {None} \cup {<<v>> : v \in Payloads}], count \in 1..FANOUT :
        /\ iop.name = "empty"
        /\ LET X == IndexBuild(EntriesOf(f, {k \in IndexKeys : f[k] # None}), count)
           IN /\ top' = X.top
              /\ internal' = X.internal
              /\ base' = X.base
        /\ contents' = f
        /\ iop' = [name |-> "build", origin |-> "build", count |-> count, panic |-> FALSE]
        /\ UNCHANGED <<listVars, pgmVars, storeVars>>

\* Index::insert(key, value) on an index that began empty.
IndexInsertAction ==
    \E key \in IndexKeys, value \in Payloads :
        /\ iop.origin = "empty"
        /\ ~iop.panic
        /\ LET r == IndexInsert(Index, key, value)
           IN /\ top' = r.index.top
              /\ internal' = r.index.internal
              /\ base' = r.index.base
              /\ iop' = [iop EXCEPT !.name = "insert", !.panic = r.panic]
        /\ contents' = [contents EXCEPT ![key] = <<value>>]
        /\ UNCHANGED <<listVars, pgmVars, storeVars>>

IndexNext == IndexBuildAction \/ IndexInsertAction

SpecIndex == IndexInit /\ [][IndexNext]_vars

(***************************************************************************)
(* SpecTop: the top component over the internal layer of a built index.    *)
(* build makes the map; insert is then called with a propagation from the  *)
(* layer below, a Single(key, address) or a Replace; build may follow.     *)
(***************************************************************************)
TopInit ==
    \E S \in SUBSET IndexKeys, count \in 1..FANOUT :
        LET f == [k \in IndexKeys |-> IF k \in S THEN <<1>> ELSE None]
            X == IndexBuild(EntriesOf(f, S), count)
        IN /\ top = X.top
           /\ internal = X.internal
           /\ base = X.base
           /\ contents = f
           /\ iop = [name |-> "build", prop |-> None, panic |-> FALSE,
                     top_before |-> <<>>, below_before |-> X.internal]
           /\ ListIdle
           /\ PGMIdle
           /\ StoreIdle

TopInsertAction ==
    \E prop \in {<<k, a>> : k \in IndexKeys, a \in Range(FullRange(internal))}
                   \cup {ReplaceProp} :
        /\ iop.name = "build"
        /\ LET r == TopInsert(top, internal, prop)
           IN /\ top' = r.top
              /\ internal' = r.base
              /\ iop' = [name |-> "top_insert", prop |-> prop, panic |-> r.panic,
                         top_before |-> top, below_before |-> internal]
        /\ UNCHANGED <<base, contents, listVars, pgmVars, storeVars>>

TopBuildAction ==
    /\ iop.name = "top_insert"
    /\ ~iop.panic
    /\ LET r == TopBuild(internal)
       IN /\ top' = r.top
          /\ internal' = r.base
    /\ iop' = [name |-> "build", prop |-> None, panic |-> FALSE,
               top_before |-> <<>>, below_before |-> internal]
    /\ UNCHANGED <<base, contents, listVars, pgmVars, storeVars>>

TopNext == TopInsertAction \/ TopBuildAction

SpecTop == TopInit /\ [][TopNext]_vars

(***************************************************************************)
(* SpecRebuild: an index that began empty takes inserts; the internal      *)
(* layer is then handed Rebuild and the top is built again over it, any    *)
(* number of times.                                                        *)
(***************************************************************************)
RebuildInit ==
    /\ top = IndexEmpty.top
    /\ internal = IndexEmpty.internal
    /\ base = IndexEmpty.base
    /\ contents = [k \in IndexKeys |-> None]
    /\ iop = [name |-> "empty", origin |-> "empty", count |-> FANOUT, panic |-> FALSE,
              ret |-> None]
    /\ ListIdle
    /\ PGMIdle
    /\ StoreIdle

RebuildInsertAction ==
    /\ iop.name \in {"empty", "insert"}
    /\ IndexInsertAction

InternalRebuildAction ==
    \E count \in 1..FANOUT :
        /\ iop.name # "rebuild"
        /\ ~iop.panic
        /\ LET r == InternalRebuild(base, count)
           IN /\ internal' = r.layer
              /\ base' = r.base
              /\ iop' = [iop EXCEPT !.name = "rebuild", !.count = count, !.ret = r.prop]
        /\ UNCHANGED <<top, contents, listVars, pgmVars, storeVars>>

RebuildTopAction ==
    /\ iop.name = "rebuild"
    /\ LET r == TopBuild(internal)
       IN /\ top' = r.top
          /\ internal' = r.base
    /\ iop' = [iop EXCEPT !.name = "top_build", !.ret = None]
    /\ UNCHANGED <<base, contents, listVars, pgmVars, storeVars>>

RebuildNext == RebuildInsertAction \/ InternalRebuildAction \/ RebuildTopAction

SpecRebuild == RebuildInit /\ [][RebuildNext]_vars

(***************************************************************************)
(* SpecStore: a page store at one path, empty at first.  A GlobalStore is  *)
(* loaded, LocalStores are loaded from it by name, their catalogs are      *)
(* changed and the handles dropped, the GlobalStore is flushed and         *)
(* dropped, and loaded again.  A panic ends the run.                       *)
(***************************************************************************)
MaxEntries == 1

\* The names given to load_local_store: "1" and "2" (i.to_string(), as in the test
\* local_store_multiple).
Names == {1, 2}

\* The names that have a live LocalStore in S.
LiveNames(S) == {S.handles[i].ident : i \in 1..Len(S.handles)}

\* What is remembered of the run: the last operation's name, the name it was given
\* (load_local_store and the drop of a LocalStore), its outcome, the names that had a
\* live LocalStore before it and the store before it (the GlobalStore's drop and
\* load_local_store), and for each name the catalog its LocalStore held when it was
\* last dropped.
StoreOp(name, ident, panic, err) ==
    [name |-> name, ident |-> ident, panic |-> panic, err |-> err,
     live |-> IF name \in {"drop", "load_local_store"} THEN LiveNames(store) ELSE {},
     before |-> IF name = "drop" THEN store ELSE None,
     dropped |-> IF name = "local_drop"
                 THEN [sop.dropped EXCEPT ![ident] =
                          <<(CHOOSE h \in Range(store.handles) : h.ident = ident).catalog>>]
                 ELSE sop.dropped]

StoreInit ==
    /\ store = Closed(<<>>)
    /\ sop = [name |-> "init", ident |-> 0, panic |-> FALSE, err |-> FALSE,
              live |-> {}, before |-> None, dropped |-> [n \in Names |-> None]]
    /\ ListIdle
    /\ PGMIdle
    /\ IndexIdle

\* The store as an operation finds it: no marble calls made yet.
Store0 == [store EXCEPT !.calls = <<>>]

StoreLoad ==
    /\ ~sop.panic
    /\ ~store.open
    /\ LET r == GlobalStoreLoad(Store0)
       IN /\ store' = r.store
          /\ sop' = StoreOp("load", 0, FALSE, r.err)
    /\ UNCHANGED <<listVars, pgmVars, indexVars>>

StoreLoadLocal ==
    \E ident \in Names :
        /\ ~sop.panic
        /\ store.open
        /\ LET r == LoadLocalStore(Store0, ident)
           IN /\ store' = r.store
              /\ sop' = StoreOp("load_local_store", ident, r.panic, r.err)
        /\ UNCHANGED <<listVars, pgmVars, indexVars>>

\* local_store.catalog.entries.push(..) on a live handle.
StoreCatalogPush ==
    \E i \in 1..Len(store.handles) :
        /\ ~sop.panic
        /\ Len(store.handles[i].catalog.entries) < MaxEntries
        /\ store' = [Store0 EXCEPT !.handles[i].catalog.entries = Append(@, 1)]
        /\ sop' = StoreOp("push", 0, FALSE, FALSE)
        /\ UNCHANGED <<listVars, pgmVars, indexVars>>

StoreLocalDrop ==
    \E i \in 1..Len(store.handles) :
        /\ ~sop.panic
        /\ store' = LocalStoreDrop(Store0, i)
        /\ sop' = StoreOp("local_drop", store.handles[i].ident, FALSE, FALSE)
        /\ UNCHANGED <<listVars, pgmVars, indexVars>>

StoreFlush ==
    /\ ~sop.panic
    /\ store.open
    /\ store' = GlobalStoreFlush(Store0)
    /\ sop' = StoreOp("flush", 0, FALSE, FALSE)
    /\ UNCHANGED <<listVars, pgmVars, indexVars>>

StoreDrop ==
    /\ ~sop.panic
    /\ store.open
    /\ LET r == GlobalStoreDrop(Store0)
       IN /\ store' = r.store
          /\ sop' = StoreOp("drop", 0, r.panic, FALSE)
    /\ UNCHANGED <<listVars, pgmVars, indexVars>>

StoreNext ==
    \/ StoreLoad
    \/ StoreLoadLocal
    \/ StoreCatalogPush
    \/ StoreLocalDrop
    \/ StoreFlush
    \/ StoreDrop

SpecStore == StoreInit /\ [][StoreNext]_vars

(***************************************************************************)
(* SpecAlloc and SpecPages: a page store at one path, empty at first, used *)
(* through the ObjectStore operations of its GlobalStore.  In SpecAlloc    *)
(* pages are allocated and freed, one value is written, the store is       *)
(* cleared, flushed, dropped and loaded again; in SpecPages pages are      *)
(* written with several values and read as several types, and the store    *)
(* is flushed, dropped and loaded again.  No LocalStore is loaded.  sop    *)
(* remembers the last operation (name, id, type, ret) and, of the run:     *)
(*   alloc    the ids reserved or returned by allocate_page, not freed     *)
(*   held     the ids returned by allocate_page, not freed                 *)
(*   carried  the ids of held at the last load, not freed since            *)
(*   written  for every id the value of the last write_page to it, unless  *)
(*            the page was deleted since                                   *)
(***************************************************************************)
\* The page ids used: the zero page and two more, so that the cache can hold more
\* than CACHE_SIZE pages.
PageIds == {0, 1, 2}

\* The values written: two TestCatalogs and a byte array.
PageValues ==
    {[type |-> "catalog", val |-> [entries |-> <<>>, id |-> i]] : i \in 0..1}
        \cup {[type |-> "bytes", val |-> [bytes |-> <<7>>]]}

PageTypes == {"catalog", "bytes", "global"}

PagesInit ==
    /\ store = Closed(<<>>)
    /\ sop = [name |-> "init", id |-> 0, type |-> "", ret |-> None,
              alloc |-> {GLOBAL_STORE_CATALOG_ID}, held |-> {}, carried |-> {},
              written |-> [id \in PageIds |-> None]]
    /\ ListIdle
    /\ PGMIdle
    /\ IndexIdle

\* The value flush writes to the zero page.
GlobalPage(S) == [type |-> "global", val |-> S.catalog]

PagesLoad ==
    /\ ~store.open
    /\ LET r == GlobalStoreLoad(Store0)
       IN /\ store' = r.store
          /\ sop' = [sop EXCEPT !.name = "load", !.id = 0, !.type = "",
                                !.ret = r.err, !.carried = sop.held,
                                !.written[GLOBAL_STORE_CATALOG_ID] =
                                    <<GlobalPage(r.store)>>]
    /\ UNCHANGED <<listVars, pgmVars, indexVars>>

PagesAllocate ==
    /\ store.open
    /\ LET r == ObjectStoreAllocatePage(Store0)
       IN /\ r.id \in PageIds
          /\ store' = r.store
          /\ sop' = [sop EXCEPT !.name = "allocate_page", !.id = 0, !.type = "",
                                !.ret = r.id, !.alloc = @ \cup {r.id},
                                !.held = @ \cup {r.id}]
    /\ UNCHANGED <<listVars, pgmVars, indexVars>>

PagesFree ==
    \E id \in PageIds :
        /\ store.open
        /\ LET r == FreePage(Store0, id)
           IN /\ store' = r.store
              /\ sop' = [sop EXCEPT
                            !.name = "free_page", !.id = id, !.type = "", !.ret = r.ret,
                            !.alloc = IF r.ret THEN @ \ {id} ELSE @,
                            !.held = IF r.ret THEN @ \ {id} ELSE @,
                            !.carried = IF r.ret THEN @ \ {id} ELSE @,
                            !.written[id] = IF r.ret THEN None ELSE @]
        /\ UNCHANGED <<listVars, pgmVars, indexVars>>

PagesClear ==
    /\ store.open
    /\ store' = ClearPages(Store0)
    /\ sop' = [sop EXCEPT
                  !.name = "clear", !.id = 0, !.type = "", !.ret = None,
                  !.alloc = {}, !.held = {}, !.carried = {},
                  !.written = [id \in PageIds |->
                                  IF id \in IdsAllocated(store.catalog.ids)
                                               \cup DOMAIN store.cache
                                  THEN None ELSE sop.written[id]]]
    /\ UNCHANGED <<listVars, pgmVars, indexVars>>

\* write_page of a default TestCatalog.
AllocWrite ==
    \E id \in PageIds :
        /\ store.open
        /\ store' = WritePage(Store0, EncodeCatalog(CatalogDefault), id)
        /\ sop' = [sop EXCEPT !.name = "write_page", !.id = id, !.type = "catalog",
                              !.ret = None,
                              !.written[id] =
                                  <<[type |-> "catalog", val |-> CatalogDefault]>>]
        /\ UNCHANGED <<listVars, pgmVars, indexVars>>

PagesWrite ==
    \E id \in PageIds, pv \in PageValues :
        /\ store.open
        /\ store' = WritePage(Store0, Encode(pv), id)
        /\ sop' = [sop EXCEPT !.name = "write_page", !.id = id, !.type = pv.type,
                              !.ret = None, !.written[id] = <<pv>>]
        /\ UNCHANGED <<listVars, pgmVars, indexVars>>

PagesRead ==
    \E id \in PageIds, type \in PageTypes :
        /\ store.open
        /\ store' = Store0
        /\ sop' = [sop EXCEPT !.name = "read_page", !.id = id, !.type = type,
                              !.ret = ReadPageAs(Store0, id, type)]
        /\ UNCHANGED <<listVars, pgmVars, indexVars>>

PagesFlush ==
    /\ store.open
    /\ store' = GlobalStoreFlush(Store0)
    /\ sop' = [sop EXCEPT !.name = "flush", !.id = 0, !.type = "", !.ret = None,
                          !.written[GLOBAL_STORE_CATALOG_ID] = <<GlobalPage(store)>>]
    /\ UNCHANGED <<listVars, pgmVars, indexVars>>

PagesDrop ==
    /\ store.open
    /\ store' = GlobalStoreDrop(Store0).store
    /\ sop' = [sop EXCEPT !.name = "drop", !.id = 0, !.type = "", !.ret = None,
                          !.written[GLOBAL_STORE_CATALOG_ID] = <<GlobalPage(store)>>]
    /\ UNCHANGED <<listVars, pgmVars, indexVars>>

AllocNext ==
    \/ PagesLoad
    \/ PagesAllocate
    \/ PagesFree
    \/ PagesClear
    \/ AllocWrite
    \/ PagesFlush
    \/ PagesDrop

SpecAlloc == PagesInit /\ [][AllocNext]_vars

PagesNext ==
    \/ PagesLoad
    \/ PagesWrite
    \/ PagesRead
    \/ PagesFlush
    \/ PagesDrop

SpecPages == PagesInit /\ [][PagesNext]_vars

(***************************************************************************)
(* SpecTwoStores: two directories, both empty at first (dir1 and dir2 of   *)
(* the test global_reload).  A GlobalStore is loaded at the first, takes   *)
(* allocate_page and free_page calls and may be dropped; a GlobalStore     *)
(* loaded at the second is given the same calls in the same order.  sop    *)
(* holds the calls and what they returned, and the second store (twin).    *)
(***************************************************************************)
MaxCalls == 3

\* marble::open(path), always opening the first directory.
MarbleOpenFirst(dirs, path) == Closed(dirs[1])

\* marble::open(path): the store over the pages of the directory at path.
MarbleOpen(dirs, path) == Closed(dirs[path])

\* The pages of the two directories.
TempDirs == <<store.disk, sop.twin.disk>>

Twin0 == [sop.twin EXCEPT !.calls = <<>>]

\* A call on S.  [ret, store]; free_page's answer is 1 for true and 0 for false.
TwoStoresCall(S, call) ==
    IF call[1] = "allocate_page"
    THEN [ret |-> ObjectStoreAllocatePage(S).id, store |-> ObjectStoreAllocatePage(S).store]
    ELSE [ret |-> IF FreePage(S, call[2]).ret THEN 1 ELSE 0, store |-> FreePage(S, call[2]).store]

TwoStoresInit ==
    /\ store = Closed(<<>>)
    /\ sop = [name |-> "init", calls |-> <<>>, rets |-> <<>>, twin |-> Closed(<<>>),
              twin_rets |-> <<>>, dropped |-> FALSE]
    /\ ListIdle
    /\ PGMIdle
    /\ IndexIdle

TwoStoresLoad ==
    /\ sop.name = "init"
    /\ store' = GlobalStoreLoad(MarbleOpen(TempDirs, 1)).store
    /\ sop' = [sop EXCEPT !.name = "load"]
    /\ UNCHANGED <<listVars, pgmVars, indexVars>>

TwoStoresCallAction ==
    \E call \in {<<"allocate_page", 0>>} \cup {<<"free_page", id>> : id \in PageIds} :
        /\ store.open
        /\ Len(sop.calls) < MaxCalls
        /\ LET r == TwoStoresCall(Store0, call)
           IN /\ store' = r.store
              /\ sop' = [sop EXCEPT !.name = call[1], !.calls = Append(@, call),
                                    !.rets = Append(@, r.ret)]
        /\ UNCHANGED <<listVars, pgmVars, indexVars>>

TwoStoresDrop ==
    /\ store.open
    /\ store' = GlobalStoreDrop(Store0).store
    /\ sop' = [sop EXCEPT !.name = "drop", !.dropped = TRUE]
    /\ UNCHANGED <<listVars, pgmVars, indexVars>>

TwoStoresTwinLoad ==
    /\ sop.name # "init"
    /\ ~sop.twin.open
    /\ sop.twin_rets = <<>>
    /\ sop' = [sop EXCEPT !.name = "twin_load",
                          !.twin = GlobalStoreLoad(MarbleOpen(TempDirs, 2)).store]
    /\ UNCHANGED <<store, listVars, pgmVars, indexVars>>

TwoStoresTwinCall ==
    /\ sop.twin.open
    /\ Len(sop.twin_rets) < Len(sop.calls)
    /\ LET r == TwoStoresCall(Twin0, sop.calls[Len(sop.twin_rets) + 1])
       IN sop' = [sop EXCEPT !.name = "twin_call", !.twin = r.store,
                             !.twin_rets = Append(@, r.ret)]
    /\ UNCHANGED <<store, listVars, pgmVars, indexVars>>

TwoStoresNext ==
    \/ TwoStoresLoad
    \/ TwoStoresCallAction
    \/ TwoStoresDrop
    \/ TwoStoresTwinLoad
    \/ TwoStoresTwinCall

SpecTwoStores == TwoStoresInit /\ [][TwoStoresNext]_vars

(***************************************************************************)
(* SpecCache: pages are allocated, written, freed and read on one loaded   *)
(* GlobalStore whose underlying store may answer a batch write with an     *)
(* error.  sop.freed[id] tells where the page of id was when free_page     *)
(* last succeeded on it ("cache", "store" or "nowhere"), and is "" from    *)
(* the next write_page to id on.                                           *)
(***************************************************************************)
CacheInit ==
    /\ store = GlobalStoreLoad(Closed(<<>>)).store
    /\ sop = [name |-> "load", id |-> 0, ok |-> TRUE, ret |-> None,
              freed |-> [id \in PageIds |-> ""]]
    /\ ListIdle
    /\ PGMIdle
    /\ IndexIdle

CacheAllocate ==
    /\ ObjectStoreAllocatePage(Store0).id \in PageIds
    /\ store' = ObjectStoreAllocatePage(Store0).store
    /\ sop' = [sop EXCEPT !.name = "allocate_page", !.ok = TRUE,
                          !.id = ObjectStoreAllocatePage(Store0).id, !.ret = None]
    /\ UNCHANGED <<listVars, pgmVars, indexVars>>

\* write_page of a default TestCatalog.
CacheWrite ==
    \E id \in PageIds, io_ok \in BOOLEAN :
        /\ LET r == WritePageResult(Store0, EncodeCatalog(CatalogDefault), id, io_ok)
           IN /\ store' = r.store
              /\ sop' = [sop EXCEPT !.name = "write_page", !.id = id, !.ok = r.ok,
                                    !.ret = None, !.freed[id] = ""]
        /\ UNCHANGED <<listVars, pgmVars, indexVars>>

CacheFree ==
    \E id \in PageIds :
        /\ LET r == FreePage(Store0, id)
           IN /\ store' = r.store
              /\ sop' = [sop EXCEPT
                            !.name = "free_page", !.id = id, !.ok = TRUE, !.ret = r.ret,
                            !.freed[id] = IF ~r.ret THEN @
                                          ELSE IF id \in DOMAIN store.cache THEN "cache"
                                          ELSE IF id \in DOMAIN store.disk THEN "store"
                                          ELSE "nowhere"]
        /\ UNCHANGED <<listVars, pgmVars, indexVars>>

\* read_page::<TestCatalog>.
CacheRead ==
    \E id \in PageIds :
        /\ store' = Store0
        /\ sop' = [sop EXCEPT !.name = "read_page", !.id = id,
                              !.ok = ReadPageAs(Store0, id, "catalog").ok,
                              !.ret = ReadPageAs(Store0, id, "catalog").value]
        /\ UNCHANGED <<listVars, pgmVars, indexVars>>

CacheNext == CacheAllocate \/ CacheWrite \/ CacheFree \/ CacheRead

SpecCache == CacheInit /\ [][CacheNext]_vars

(***************************************************************************)
(* SpecNames: LocalStores are loaded by name and dropped, with their       *)
(* default catalogs, on a store whose pages are also allocated and cleared *)
(* through the GlobalStore, and which is dropped and loaded again.         *)
(***************************************************************************)
NamesAllocate ==
    /\ ~sop.panic
    /\ store.open
    /\ ObjectStoreAllocatePage(Store0).id \in PageIds
    /\ store' = ObjectStoreAllocatePage(Store0).store
    /\ sop' = StoreOp("allocate_page", 0, FALSE, FALSE)
    /\ UNCHANGED <<listVars, pgmVars, indexVars>>

NamesClear ==
    /\ ~sop.panic
    /\ store.open
    /\ store' = ClearPages(Store0)
    /\ sop' = StoreOp("clear", 0, FALSE, FALSE)
    /\ UNCHANGED <<listVars, pgmVars, indexVars>>

NamesNext ==
    \/ StoreLoad
    \/ StoreLoadLocal
    \/ StoreLocalDrop
    \/ StoreDrop
    \/ NamesAllocate
    \/ NamesClear

SpecNames == StoreInit /\ [][NamesNext]_vars

\* The keys of the base layer's entries, in chain order.
RECURSIVE ChainKeys(_, _)
ChainKeys(layer, ptrs) ==
    IF ptrs = <<>> THEN <<>>
    ELSE LET e == BTreeNode(layer, Head(ptrs)).entries
         IN AsSeq([i \in 1..Len(e) |-> e[i][1]]) \o ChainKeys(layer, Tail(ptrs))

StrictlyIncreasing(seq) == \A i \in 1..(Len(seq) - 1) : seq[i] < seq[i + 1]

\* C1: on an index made by inserts into an empty one, search(k) is the value of the
\* most recent insert for k, and None for a key never inserted.
C1_SearchReturnsLastInsert ==
    iop.origin = "empty" =>
        /\ ~iop.panic
        /\ \A k \in IndexKeys : IndexSearch(Index, k) = contents[k]

\* Inserts have split base nodes and an internal node, so that the top holds two
\* entries, and some key was never inserted.
C1_Witness ==
    /\ iop.origin = "empty"
    /\ iop.name = "insert"
    /\ Cardinality(DOMAIN top) >= 2
    /\ Len(base.nodes) >= 3
    /\ \E k \in IndexKeys : contents[k] = None
    /\ \E k \in IndexKeys : contents[k] = <<MaxPayload>>

\* C2: an index made by inserts answers every search as the index built from the
\* same entries in ascending order does, however build packs its nodes; and an index
\* just built finds every built key with its value.
C2_BuildAnswersAsInserts ==
    /\ iop.origin = "empty" =>
          \A count \in 1..FANOUT : \A k \in IndexKeys :
              IndexSearch(Index, k) = IndexSearch(IndexBuild(ContentEntries, count), k)
    /\ iop.name = "build" =>
          \A k \in IndexKeys : IndexSearch(Index, k) = contents[k]

\* An index of every key, made by inserts that split an internal node.
C2_Witness ==
    /\ iop.origin = "empty"
    /\ \A k \in IndexKeys : contents[k] # None
    /\ Cardinality(DOMAIN top) >= 2

\* C3: after a build or any inserts, the base chain from first through next links has
\* strictly increasing entry keys, and strictly increasing node lower bounds.
C3_BaseChainIncreasing ==
    LET r == FullRange(base)
    IN /\ StrictlyIncreasing(ChainKeys(base, r))
       /\ StrictlyIncreasing(AsSeq([i \in 1..Len(r) |-> BTreeLowerBound(base, r[i])]))
       /\ Len(r) = Len(base.nodes)
       /\ \A i \in 1..Len(r) : Len(r) > 1 => BTreeNode(base, r[i]).entries # <<>>

\* Inserts have split a base node that was not the last of its chain.
C3_Witness ==
    /\ iop.name = "insert"
    /\ Len(base.nodes) >= 3
    /\ base.nodes[1].next # <<2>>

\* The ranges a replace worked on, read from the record of the last operation.
PoisonRange == ChainRange(pop.upper_before, pop.poison_head, pop.poison_tail)
DataRange == ChainRange(pop.lower_before, pop.data_head, pop.data_tail)
NewRange == ChainRange(upper, pop.new_head, pop.new_tail)

\* parent p covers node n: lower_bound(p) <= lower_bound(n), and n is below p's next
\* sibling when there is one.
Covers(U, B, p, n) ==
    /\ LowerBound(U, p) <= LowerBound(B, n)
    /\ Node(U, p).next # None => LowerBound(B, n) < LowerBound(U, Node(U, p).next)

\* C4: after fill_from_beneath every node n of the lower layer has a parent p in the
\* rebuilt upper layer, lower_bound(p) <= lower_bound(n), and lower_bound(n) is below
\* the lower bound of p's next sibling when p has one.
C4_FillFromBeneathParents ==
    pop.name = "fill_from_beneath" =>
        \A n \in Range(Traversal(lower)) :
            /\ Parent(lower, n) # None
            /\ ArenaContains(upper.arena, Parent(lower, n))
            /\ Covers(upper, lower, Parent(lower, n), n)

\* C5: after replace every lower node of [data_head, data_tail] has its parent among
\* the newly spliced upper nodes, and that parent covers it:
\* lower_bound(parent) <= lower_bound(node) < lower_bound(next(parent)).
C5_ReplaceReparents ==
    pop.name = "replace" =>
        /\ ~pop.panic
        /\ \A n \in Range(DataRange) :
              /\ Parent(lower, n) \in Range(NewRange)
              /\ LowerBound(upper, Parent(lower, n)) <= LowerBound(lower, n)
              /\ Node(upper, Parent(lower, n)).next # None
              /\ LowerBound(lower, n) < LowerBound(upper, Node(upper, Parent(lower, n)).next)

\* A replace that spliced in several nodes for a data range of several nodes.
C5_Witness ==
    /\ pop.name = "replace"
    /\ Len(NewRange) >= 2
    /\ Len(DataRange) >= 3
    /\ \E n \in Range(DataRange) : Parent(pop.lower_before, n) = None

\* C6: replace leaves alone the parent of every lower node outside
\* [data_head, data_tail], every upper node outside [poison_head, poison_tail] (it is
\* at its address with its contents), and the lower layer's nodes and chain.
C6_ReplaceFrame ==
    pop.name = "replace" =>
        /\ \A n \in Range(Traversal(pop.lower_before)) \ Range(DataRange) :
              Parent(lower, n) = Parent(pop.lower_before, n)
        /\ \A u \in ArenaIndices(pop.upper_before.arena) \ Range(PoisonRange) :
              /\ ArenaContains(upper.arena, u)
              /\ Node(upper, u).inner = Node(pop.upper_before, u).inner
              /\ Node(upper, u).parent = Node(pop.upper_before, u).parent
        /\ ArenaIndices(lower.arena) = ArenaIndices(pop.lower_before.arena)
        /\ Traversal(lower) = Traversal(pop.lower_before)
        /\ \A n \in ArenaIndices(lower.arena) :
              /\ Node(lower, n).inner = Node(pop.lower_before, n).inner
              /\ Node(lower, n).next = Node(pop.lower_before, n).next
              /\ Node(lower, n).previous = Node(pop.lower_before, n).previous

\* A replace past the head of the chain: a parented lower node lies outside the data
\* range and an upper node with entries lies before the poison range.
C6_Witness ==
    /\ pop.name = "replace"
    /\ \E n \in Range(Traversal(lower)) \ Range(DataRange) :
          n # lower.last /\ Parent(lower, n) # None
    /\ pop.poison_head # pop.upper_before.first
    /\ Len(DataRange) >= 2

\* The child addresses held by a run of upper nodes, in chain order.
RECURSIVE ChildAddresses(_, _)
ChildAddresses(U, ptrs) ==
    IF ptrs = <<>> THEN <<>>
    ELSE LET d == Node(U, Head(ptrs)).inner.data
         IN AsSeq([i \in 1..Len(d) |-> d[i][2]]) \o ChildAddresses(U, Tail(ptrs))

\* C7: replace removes exactly the upper nodes of [poison_head, poison_tail], puts the
\* new nodes in their place in the chain, and the child addresses the new nodes hold
\* are the lower nodes from data_head to data_tail, each once, in chain order.
C7_ReplaceExactly ==
    pop.name = "replace" =>
        LET before == Traversal(pop.upper_before)
            i == IndexOf(before, pop.poison_head)
            j == IndexOf(before, pop.poison_tail)
        IN /\ ArenaIndices(upper.arena) \cap ArenaIndices(pop.upper_before.arena)
                = ArenaIndices(pop.upper_before.arena) \ Range(PoisonRange)
           /\ ArenaIndices(upper.arena) \ ArenaIndices(pop.upper_before.arena) = Range(NewRange)
           /\ Traversal(upper) = SubSeq(before, 1, i - 1) \o NewRange
                                    \o SubSeq(before, j + 1, Len(before))
           /\ ChildAddresses(upper, NewRange) = DataRange
           /\ \A a, b \in 1..Len(DataRange) : DataRange[a] = DataRange[b] => a = b

\* A replace of several upper nodes by several, over a data range that ends before
\* the lower chain does.
C7_Witness ==
    /\ pop.name = "replace"
    /\ Len(PoisonRange) >= 2
    /\ Len(NewRange) >= 2
    /\ Len(DataRange) >= 2
    /\ Node(lower, pop.data_tail).next # lower.last

\* Every entry of the node at ptr is inside the window its model predicts for its key.
WellApproximated(L, ptr, eps) ==
    LET inner == Node(L, ptr).inner
    IN \A i \in 1..Len(inner.data) :
          LET w == Approximate(inner, inner.data[i][1], eps)
          IN w.lo <= i - 1 /\ i - 1 < w.hi

\* C8: in every PGM node made by fill, fill_from_beneath or replace each entry at
\* local index i has lo <= i < hi for [lo, hi) = approximate(entry.key).
C8_EntriesWithinWindow ==
    /\ \A n \in ArenaIndices(lower.arena) : WellApproximated(lower, n, EPSILON_BENEATH)
    /\ \A u \in ArenaIndices(upper.arena) : WellApproximated(upper, u, EPSILON)

\* A node of three or more entries whose model does not predict every index exactly,
\* beneath an upper layer that replace has spliced two or more nodes into.
C8_Witness ==
    /\ pop.name = "replace"
    /\ Len(NewRange) >= 2
    /\ \E n \in ArenaIndices(lower.arena) :
          LET inner == Node(lower, n).inner
          IN /\ Len(inner.data) >= 3
             /\ \E i \in 1..Len(inner.data) :
                   (inner.model.slope[1] * inner.data[i][1] + inner.model.intercept[1])
                       % inner.model.slope[2] # 0

\* C9: after insert_after(node, ptr) the forward traversal is the one before with the
\* new node put in right after ptr (so it is met exactly once, and what followed ptr
\* now follows the new node), and last is the new node iff ptr was last.
C9_InsertAfterTraversal ==
    lop.name = "insert_after" =>
        LET before == Traversal(lop.before)
            after == Traversal(list)
            i == IndexOf(before, lop.ptr)
        IN /\ i > 0
           /\ lop.ret \notin Range(before)
           /\ after = SubSeq(before, 1, i) \o <<lop.ret>> \o SubSeq(before, i + 1, Len(before))
           /\ Node(list, lop.ret).inner = lop.inner
           /\ (list.last = lop.ret) <=> (lop.before.last = lop.ptr)
           /\ Node(list, list.last).next = None

\* insert_after on the last node and insert_after in the middle have both happened.
C9_Witness ==
    /\ lop.name = "insert_after"
    /\ lop.before.last # lop.ptr
    /\ Len(Traversal(list)) = MaxNodes
    /\ list.last # lop.before.first
    /\ lop.before.arena.generation > 0

\* C10: after clear(seed) the list holds one node: len() = 1, first = last = the
\* returned address, the node holds seed and has no next, no previous and no parent.
C10_ClearSingleSeed ==
    lop.name = "clear" =>
        /\ ListLen(list) = 1
        /\ ArenaIndices(list.arena) = {lop.ret}
        /\ list.first = lop.ret
        /\ list.last = lop.ret
        /\ Node(list, lop.ret).inner = lop.inner
        /\ Node(list, lop.ret).next = None
        /\ Node(list, lop.ret).previous = None
        /\ Node(list, lop.ret).parent = None

\* clear of a list that held several nodes.
C10_Witness ==
    /\ lop.name = "clear"
    /\ ListLen(lop.before) = MaxNodes
    /\ ListLen(list) = 1

\* C11: an address the list has freed (by clear or by replace) is never handed out
\* again and never names a live node, even when its arena slot is in use again:
\* every address an operation returns, and every address now in the arena, differs
\* from every address freed so far.
C11_FreedNeverReturned ==
    /\ lop.ret \cap Freed = {}
    /\ ArenaIndices(list.arena) \cap Freed = {}

\* insert_after has handed out an address in a slot that both a clear and a replace
\* had freed before.
C11_Witness ==
    /\ lop.name = "insert_after"
    /\ \E a \in lop.ret :
          /\ \E f \in lop.freed : f[1][1] = a[1] /\ f[2] = "clear"
          /\ \E f \in lop.freed : f[1][1] = a[1] /\ f[2] = "replace"

\* C12: search(node, key) on the internal layer returns the child of the largest entry
\* key <= key, and the node's first child when every entry key of the node exceeds key.
C12_InternalSearchLub ==
    \A ptr \in Range(FullRange(internal)) : \A key \in IndexKeys :
        LET e == BTreeNode(internal, ptr).entries
            r == InternalSearch(internal, ptr, key)
        IN IF \A i \in 1..Len(e) : e[i][1] > key
           THEN r = e[1][2]
           ELSE \E i \in 1..Len(e) :
                   /\ e[i][1] <= key
                   /\ r = e[i][2]
                   /\ \A j \in 1..Len(e) : e[j][1] <= key => e[j][1] <= e[i][1]

\* An internal node of two entries is searched with a key equal to its second entry
\* key and with a key between the two, and some node with a key below all its entries.
C12_Witness ==
    /\ \E ptr \in Range(FullRange(internal)) :
          LET e == BTreeNode(internal, ptr).entries
          IN /\ Len(e) >= 2
             /\ e[2][1] \in IndexKeys
             /\ \E key \in IndexKeys : e[1][1] < key /\ key < e[2][1]
    /\ \E ptr \in Range(FullRange(internal)) :
          \E key \in IndexKeys : \A i \in 1..Len(BTreeNode(internal, ptr).entries) :
              BTreeNode(internal, ptr).entries[i][1] > key

\* What C13 asks of one insert of (key, value) into the node at ptr of `layer`, with
\* result r: a propagation iff the node would hold more than FANOUT entries; then the
\* node keeps ceil(FANOUT / 2) entries, a new node takes floor(FANOUT / 2) + 1 and is
\* linked in as right sibling, and the propagation is (the new node's lower bound,
\* the new node's address).
SplitsAsSpecified(layer, ptr, key, value, r) ==
    LET old == BTreeNode(layer, ptr)
        e == old.entries
        count == IF \E i \in 1..Len(e) : e[i][1] = key THEN Len(e) ELSE Len(e) + 1
        merged == {x \in Range(e) : x[1] # key} \cup {<<key, value>>}
    IN /\ (r.prop # None) <=> (count > FANOUT)
       /\ r.prop = None =>
             /\ Len(r.layer.nodes) = Len(layer.nodes)
             /\ Range(BTreeNode(r.layer, ptr).entries) = merged
             /\ Len(BTreeNode(r.layer, ptr).entries) = count
             /\ BTreeNode(r.layer, ptr).next = old.next
       /\ r.prop # None =>
             LET a == r.prop[2]
                 left == BTreeNode(r.layer, ptr)
                 right == BTreeNode(r.layer, a)
             IN /\ a[1] = Len(layer.nodes) + 1
                /\ Len(r.layer.nodes) = Len(layer.nodes) + 1
                /\ 2 * Len(left.entries) \in {FANOUT, FANOUT + 1}
                /\ Len(right.entries) = (FANOUT \div 2) + 1
                /\ left.next = a
                /\ right.next = old.next
                /\ r.prop[1] = right.entries[1][1]
                /\ r.prop[1] = BTreeLowerBound(r.layer, a)
                /\ \A i \in 1..Len(left.entries) : left.entries[i][1] < r.prop[1]
                /\ StrictlyIncreasing(AsSeq([i \in 1..Len(right.entries) |->
                                                 right.entries[i][1]]))
                /\ Range(left.entries) \cup Range(right.entries) = merged

\* C13: an insert into a base node, and the insert of its propagation into the parent
\* internal node, return a propagation iff the node's entry count would exceed FANOUT,
\* and then split as SplitsAsSpecified says; FANOUT + 1 distinct keys inserted into an
\* empty index give two base nodes.
C13_InsertSplits ==
    /\ (iop.origin = "empty" /\ ~iop.panic) =>
          \A key \in IndexKeys, value \in Payloads :
              LET ptr == Descend(Index, key)
                  r0 == BaseInsert(base, ptr, key, value)
                  up == BTreeNode(r0.layer, ptr).parent
              IN /\ SplitsAsSpecified(base, ptr, key, value, r0)
                 /\ (r0.prop # None /\ up # None) =>
                       LET r1 == InternalInsert(internal, r0.layer, up, r0.prop)
                       IN SplitsAsSpecified(internal, up, r0.prop[1], r0.prop[2],
                                            [layer |-> r1.layer, prop |-> r1.prop])
    /\ (iop.origin = "empty" /\ ~iop.panic
           /\ Cardinality({k \in IndexKeys : contents[k] # None}) = FANOUT + 1) =>
          Len(FullRange(base)) = 2

\* Inserts have split base nodes, and from here one key splits a base node and its
\* parent internal node, another replaces a value, and another fits without a split.
C13_Witness ==
    /\ iop.name = "insert"
    /\ ~iop.panic
    /\ Len(base.nodes) >= 2
    /\ \E key \in IndexKeys :
          LET ptr == Descend(Index, key)
              r0 == BaseInsert(base, ptr, key, 1)
          IN /\ r0.prop # None
             /\ r0.prop[1] # key
             /\ InternalInsert(internal, r0.layer, BTreeNode(r0.layer, ptr).parent,
                               r0.prop).prop # None
    /\ \E key \in IndexKeys : contents[key] # None
    /\ \E key \in IndexKeys :
          /\ contents[key] = None
          /\ BaseInsert(base, Descend(Index, key), key, 1).prop = None

\* C14: the top component's search(key) returns the address mapped to the greatest
\* map key <= key, and the address of the smallest map key when key is below every
\* map key.
C14_TopSearchGlb ==
    \A key \in IndexKeys :
        LET r == TopSearch(top, key)
            le == {k \in DOMAIN top : k <= key}
        IN IF le = {}
           THEN \E k \in DOMAIN top : r = top[k] /\ \A k2 \in DOMAIN top : k <= k2
           ELSE \E k \in le : r = top[k] /\ \A k2 \in le : k2 <= k

\* A map of several keys is searched with a key below all of them, with a map key
\* other than the smallest, and with a key strictly between two map keys; the
\* addresses differ.
C14_Witness ==
    /\ Cardinality(DOMAIN top) >= 2
    /\ Cardinality({top[k] : k \in DOMAIN top}) = Cardinality(DOMAIN top)
    /\ \E key \in IndexKeys : \A k \in DOMAIN top : key < k
    /\ \E key \in IndexKeys : key \in DOMAIN top /\ \E k \in DOMAIN top : k < key
    /\ \E key \in IndexKeys : key \notin DOMAIN top /\ \E k1, k2 \in DOMAIN top : k1 < key /\ key < k2

\* C15: when the top component's insert is given a Replace propagation from the layer
\* below, it does not fail, and its map becomes the one build makes by walking that
\* layer.
C15_TopRebuildsOnReplace ==
    (iop.name = "top_insert" /\ iop.prop = ReplaceProp) =>
        /\ ~iop.panic
        /\ top = TopBuild(iop.below_before).top

\* The live LocalStore of a name.
HandleOf(S, ident) == CHOOSE h \in Range(S.handles) : h.ident = ident

\* C16: load_local_store(name) panics whenever a LocalStore of that name is live (its
\* only panic is the one saying the catalog has already been loaded), and no two live
\* LocalStores have the same name.
C16_OneLocalStorePerName ==
    /\ \A i, j \in 1..Len(store.handles) :
          i # j => store.handles[i].ident # store.handles[j].ident
    /\ (sop.name = "load_local_store" /\ sop.ident \in sop.live) => sop.panic
    /\ (store.open /\ ~sop.panic) =>
          \A ident \in LiveNames(store) : LoadLocalStore(store, ident).panic

\* load_local_store was called for a name whose LocalStore was live, while the other
\* name had none.
C16_Witness ==
    /\ sop.name = "load_local_store"
    /\ sop.ident \in sop.live
    /\ sop.live # Names
    /\ sop.panic

\* C17: the set of active names is the set of names with a live LocalStore, and
\* load_local_store of a name without a live LocalStore does not panic, whatever
\* loads and drops came before.
C17_ActiveIsLive ==
    /\ store.active_stores = LiveNames(store)
    /\ (sop.name = "load_local_store" /\ sop.ident \notin sop.live) => ~sop.panic
    /\ (store.open /\ ~sop.panic) =>
          \A ident \in Names \ LiveNames(store) : ~LoadLocalStore(store, ident).panic

\* A name whose LocalStore had been dropped is loaded again, while the other name's
\* LocalStore is live.
C17_Witness ==
    /\ sop.name = "load_local_store"
    /\ ~sop.panic
    /\ ~sop.err
    /\ sop.dropped[sop.ident] # None
    /\ sop.live # {}
    /\ LiveNames(store) = Names

\* C18: the drop of the GlobalStore while a LocalStore is live panics, and has made no
\* call on the page store and left the pages and the cache as they were.
C18_DropRefusedWhileLive ==
    (sop.name = "drop" /\ sop.live # {}) =>
        /\ sop.panic
        /\ store.calls = <<>>
        /\ store.disk = sop.before.disk
        /\ store.cache = sop.before.cache

\* The GlobalStore was dropped with a live LocalStore and pages waiting in the cache.
C18_Witness ==
    /\ sop.name = "drop"
    /\ sop.live # {}
    /\ sop.panic
    /\ DOMAIN sop.before.cache # {}
    /\ sop.before.disk # <<>>

\* C19: a drop of the GlobalStore that does not panic writes the global catalog and
\* every cached page to the page store, and then runs maintenance exactly once: the
\* calls on the page store are write batches followed by one maintenance, the batches
\* cover page 0 and every cached page, and afterwards page 0 holds the catalog and
\* every page that was cached holds its cached bytes.
C19_FlushThenMaintenance ==
    (sop.name = "drop" /\ ~sop.panic) =>
        LET c == store.calls
            cached == DOMAIN sop.before.cache \ {GLOBAL_STORE_CATALOG_ID}
        IN /\ Len(c) >= 2
           /\ c[Len(c)].call = "maintenance"
           /\ \A i \in 1..(Len(c) - 1) : c[i].call = "write_batch"
           /\ cached \cup {GLOBAL_STORE_CATALOG_ID} \subseteq
                 UNION {c[i].ids : i \in 1..(Len(c) - 1)}
           /\ store.disk[GLOBAL_STORE_CATALOG_ID] = EncodeGlobalCatalog(sop.before.catalog)
           /\ \A id \in cached : store.disk[id] = sop.before.cache[id]
           /\ ~store.open

\* The GlobalStore was dropped with two registered names and their catalogs waiting in
\* the cache, one of them changed since it was last on the page store.
C19_Witness ==
    /\ sop.name = "drop"
    /\ ~sop.panic
    /\ DOMAIN sop.before.catalog.registry = Names
    /\ Cardinality(DOMAIN sop.before.cache \ {GLOBAL_STORE_CATALOG_ID}) = 2
    /\ \E id \in DOMAIN sop.before.cache \cap DOMAIN sop.before.disk :
          /\ id # GLOBAL_STORE_CATALOG_ID
          /\ sop.before.cache[id] # sop.before.disk[id]

\* C20: load_local_store of a name whose LocalStore was dropped before succeeds with
\* the catalog that LocalStore held when it was dropped.
C20_CatalogSavedOnDrop ==
    (sop.name = "load_local_store" /\ ~sop.panic /\ sop.dropped[sop.ident] # None) =>
        /\ ~sop.err
        /\ HandleOf(store, sop.ident).catalog = sop.dropped[sop.ident][1]

\* A catalog changed before the drop is read back from the page store, the cache no
\* longer holding it.
C20_Witness ==
    /\ sop.name = "load_local_store"
    /\ ~sop.panic
    /\ ~sop.err
    /\ sop.dropped[sop.ident] # None
    /\ sop.dropped[sop.ident][1].entries # <<>>
    /\ HandleOf(store, sop.ident).id \notin DOMAIN store.cache

\* C21: an id returned by allocate_page and not freed before the GlobalStore is
\* dropped is never returned by allocate_page after the store is loaded again:
\* the id allocate_page returns is none of the ids carried over the last load.
C21_IdsSurviveReopening ==
    sop.name = "allocate_page" => sop.ret \notin sop.carried

\* allocate_page has answered on a reloaded store that carried ids over.
C21_Witness ==
    /\ sop.name = "allocate_page"
    /\ sop.carried # {}
    /\ sop.carried \subseteq sop.held \ {sop.ret}

\* C22: allocate_page never returns id 0, after any sequence of allocate_page,
\* free_page and clear on a loaded store.
C22_ZeroNeverReturned ==
    sop.name = "allocate_page" => sop.ret > 0

\* C23: free_page(id) returns true iff id is allocated when it is called; when it
\* returns false the allocator, the cache and the pages of the underlying store
\* are as they were.
C23_FreeReportsAllocation ==
    [][sop'.name = "free_page" =>
          /\ sop'.ret <=> sop'.id \in sop.alloc
          /\ ~sop'.ret => /\ store'.catalog = store.catalog
                          /\ store'.cache = store.cache
                          /\ store'.disk = store.disk
                          /\ store'.calls = <<>>]_vars

\* free_page has answered false for an id that is not allocated, on a store with
\* cached pages and pages in the underlying store.
C23_Witness ==
    /\ sop.name = "free_page"
    /\ ~sop.ret
    /\ sop.id \notin sop.alloc
    /\ store.cache # <<>>
    /\ DOMAIN store.disk \ {GLOBAL_STORE_CATALOG_ID} # {}

\* C24: read_page(id) returns the value of the most recent write_page to id, read
\* as the type it was written with, whatever writes to other ids, automatic
\* flushes of the cache and calls of flush came in between.
C24_ReadYourWrites ==
    (/\ sop.name = "read_page"
     /\ sop.written[sop.id] # None
     /\ sop.written[sop.id][1].type = sop.type)
        => sop.ret = [ok |-> TRUE, value |-> <<sop.written[sop.id][1].val>>]

\* A page written by write_page has been read from the underlying store (the cache
\* was flushed since) while other pages are cached.
C24_Witness ==
    /\ sop.name = "read_page"
    /\ sop.id # GLOBAL_STORE_CATALOG_ID
    /\ sop.written[sop.id] # None
    /\ sop.written[sop.id][1].type = sop.type
    /\ sop.id \notin DOMAIN store.cache
    /\ store.cache # <<>>

\* C25: read_page of an id that was never written returns Ok(None) and changes
\* nothing: the cache, the catalog and the pages of the underlying store are as
\* they were and no call is made that writes to it.
C25_ReadMissingPage ==
    [][(sop'.name = "read_page" /\ sop.written[sop'.id] = None) =>
          /\ sop'.ret = [ok |-> TRUE, value |-> None]
          /\ store'.disk = store.disk
          /\ store'.cache = store.cache
          /\ store'.catalog = store.catalog
          /\ store'.calls = <<>>]_vars

\* A page never written has been read while other pages are in the cache and in
\* the underlying store.
C25_Witness ==
    /\ sop.name = "read_page"
    /\ sop.written[sop.id] = None
    /\ sop.ret = [ok |-> TRUE, value |-> None]
    /\ store.cache # <<>>
    /\ DOMAIN store.disk \ {GLOBAL_STORE_CATALOG_ID} # {}

\* C26: read_page of a page whose bytes do not decode as the requested type
\* returns an error, be the bytes in the cache or in the underlying store.
C26_CorruptPageIsError ==
    (/\ sop.name = "read_page"
     /\ sop.written[sop.id] # None
     /\ DecodeAs(sop.type, Encode(sop.written[sop.id][1])) = None)
        => sop.ret = [ok |-> FALSE, value |-> None]

\* A byte array has been read as a TestCatalog from the underlying store.
C26_Witness ==
    /\ sop.name = "read_page"
    /\ sop.type = "catalog"
    /\ sop.written[sop.id] # None
    /\ sop.written[sop.id][1].type = "bytes"
    /\ sop.id \notin DOMAIN store.cache
    /\ ~sop.ret.ok

\* C27: once write_page(page, id) has returned, the underlying page store holds
\* the written bytes for id.
C27_WriteThrough ==
    sop.name = "write_page" =>
        /\ sop.id \in DOMAIN store.disk
        /\ store.disk[sop.id] = Encode(sop.written[sop.id][1])

\* C28: each local store name is bound to one page id for the life of the store
\* and two different names never share an id.
C28_NamesNeverShareAnId ==
    store.open =>
        \A a, b \in DOMAIN store.catalog.registry :
            a # b => store.catalog.registry[a] # store.catalog.registry[b]

\* The window approximate(key) of the parent of the lower node c holds an entry
\* whose value is the address c.
ParentWindowHolds(c, key) ==
    LET inner == Node(upper, Parent(lower, c)).inner
        w == Approximate(inner, key, EPSILON)
    IN \E i \in (w.lo + 1)..w.hi : inner.data[i][2] = c

\* C29: after fill_from_beneath or replace, for every key k stored in a lower node
\* c that has a parent, the window approximate(k) of the parent (clipped to the
\* parent's entry count) contains the parent entry whose value is c's address.
C29_ParentWindowHoldsChild ==
    (pop.name \in {"fill_from_beneath", "replace"} /\ ~pop.panic) =>
        \A c \in Range(Traversal(lower)) :
            (/\ Parent(lower, c) # None
             /\ Parent(lower, c) \in ArenaIndices(upper.arena))
                => \A i \in 1..Len(Node(lower, c).inner.data) :
                       ParentWindowHolds(c, Node(lower, c).inner.data[i][1])

\* C30: fill discards the previous contents and stores every input entry exactly
\* once, in input order, across the chain of nodes: the nodes' entries in chain
\* order are the input, the sum of the nodes' entry counts is the number of input
\* entries, and the chain holds every node of the layer and ends in the sentinel.
C30_FillStoresInput ==
    pop.name = "fill" =>
        /\ DataOf(lower, Traversal(lower)) = pop.input
        /\ CountOf(lower, Traversal(lower)) = Len(pop.input)
        /\ Range(Traversal(lower)) = ArenaIndices(lower.arena)
        /\ Node(lower, lower.last).inner = Sentinel

\* A layer that held entries has been filled with fewer entries, in two nodes or
\* more.
C30_Witness ==
    /\ pop.name = "fill"
    /\ pop.had > Len(pop.input)
    /\ Len(pop.input) >= 2
    /\ Len(Traversal(lower)) >= 3

\* C31: after any sequence of new, insert_after, insert_before and clear the links
\* form one doubly-linked chain: first has no previous, last has no next,
\* next(previous(n)) = n and previous(next(n)) = n wherever defined (and the
\* linked node is live), last is reachable from first, and insert_before on the
\* first node makes the new node first.
C31_DoublyLinkedChain ==
    /\ Node(list, list.first).previous = None
    /\ Node(list, list.last).next = None
    /\ \A n \in ArenaIndices(list.arena) :
          /\ Node(list, n).previous # None =>
                /\ ArenaContains(list.arena, Node(list, n).previous)
                /\ Node(list, Node(list, n).previous).next = n
          /\ Node(list, n).next # None =>
                /\ ArenaContains(list.arena, Node(list, n).next)
                /\ Node(list, Node(list, n).next).previous = n
    /\ list.last \in Range(Traversal(list))
    /\ (lop.name = "insert_before" /\ lop.ptr = lop.before.first) => list.first = lop.ret

\* insert_before has put a node before the first of a list of two or more nodes that
\* was cleared before.
C31_Witness ==
    /\ lop.name = "insert_before"
    /\ lop.ptr = lop.before.first
    /\ list.first = lop.ret
    /\ ListLen(list) >= 3
    /\ list.arena.generation >= 1

\* C39: after any sequence of new, insert_after, insert_before and clear, len() is
\* the number of nodes met by walking from first through next links to last, and
\* every node of the arena is met on that walk.
C39_LenIsChainLength ==
    /\ ListLen(list) = Len(ChainRange(list, list.first, list.last))
    /\ ChainRange(list, list.first, list.last)[ListLen(list)] = list.last
    /\ Range(ChainRange(list, list.first, list.last)) = ArenaIndices(list.arena)

\* A list of four nodes, grown at both ends and in the middle after a clear.
C39_Witness ==
    /\ ListLen(list) = 4
    /\ list.arena.generation >= 1
    /\ lop.name = "insert_after"
    /\ Node(list, lop.ret).next # None
    /\ Node(list, list.first).inner # Node(list, list.last).inner

\* The last node of the chain of L is the empty sentinel, and no other node of L
\* is empty.
OneSentinel(L) ==
    /\ Node(L, L.last).inner = Sentinel
    /\ Node(L, L.last).next = None
    /\ L.last \in Range(Traversal(L))
    /\ \A n \in ArenaIndices(L.arena) \ {L.last} : Node(L, n).inner.data # <<>>

\* C32: every PGM layer ends with exactly one sentinel node: after new, fill,
\* fill_from_beneath and replace (with poison_tail not the sentinel) the last
\* node of the chain is the empty sentinel and no other node is a sentinel.
C32_OneSentinelLast ==
    ~pop.panic => OneSentinel(lower) /\ OneSentinel(upper)

\* replace has spliced two or more nodes into an upper layer of three data nodes
\* or more.
C32_Witness ==
    /\ pop.name = "replace"
    /\ ~pop.panic
    /\ Len(NewRange) >= 2
    /\ ListLen(upper) >= 4
    /\ Node(upper, pop.new_tail).next # upper.last

\* C33: build(base) makes a map that holds exactly one entry
\* (lower_bound(n), address(n)) for every node n of the layer below and nothing
\* else, and sets the parent of every such node.
C33_TopBuildMapsEveryNode ==
    iop.name = "build" =>
        LET nodes == {<<i>> : i \in 1..Len(internal.nodes)}
        IN /\ Range(FullRange(internal)) = nodes
           /\ DOMAIN top = {BTreeLowerBound(internal, n) : n \in nodes}
           /\ \A n \in nodes : top[BTreeLowerBound(internal, n)] = n
           /\ Cardinality(DOMAIN top) = Cardinality(nodes)
           /\ \A n \in nodes : BTreeNode(internal, n).parent = Unit

\* The top has been built over a layer of two or more nodes.
C33_Witness ==
    /\ iop.name = "build"
    /\ Len(internal.nodes) >= 2
    /\ Cardinality(DOMAIN top) >= 2
    /\ \A n \in Range(FullRange(internal)) : BTreeNode(internal, n).parent = Unit

\* C34: the top insert of Single(key, addr), reached when an insert splits a node
\* of the layer below the top, makes search(key) return addr and has set the
\* parent of addr in the layer below when insert returns; every other map entry
\* and the parent of every other node of that layer are as before.
C34_TopInsertSingle ==
    [][(iop'.name = "insert" /\ top' # top) =>
          \E key \in DOMAIN top' :
              LET addr == top'[key]
              IN /\ top' = MapInsert(top, key, addr)
                 /\ TopSearch(top', key) = addr
                 /\ BTreeNode(internal', addr).parent = Unit
                 /\ \A k \in DOMAIN top \ {key} : top'[k] = top[k]
                 /\ \A i \in 1..Len(internal.nodes) :
                       <<i>> # addr =>
                           internal'.nodes[i].parent = internal.nodes[i].parent]_vars

\* An index that began empty has had one split reach the top: the map holds two
\* entries and both nodes below have their parent.
C34_Witness ==
    /\ iop.name = "insert"
    /\ iop.origin = "empty"
    /\ ~iop.panic
    /\ Cardinality(DOMAIN top) = 2
    /\ Len(internal.nodes) = 2
    /\ \A i \in 1..Len(internal.nodes) : internal.nodes[i].parent = Unit

\* The entries of the nodes of a B-tree layer, in chain order.
RECURSIVE ChainEntries(_, _)
ChainEntries(layer, ptrs) ==
    IF ptrs = <<>> THEN <<>>
    ELSE BTreeNode(layer, Head(ptrs)).entries \o ChainEntries(layer, Tail(ptrs))

OneStepWalk(U, B, kids, start) ==
    LET tu == Traversal(U)
        at(i) == IndexOf(tu, Parent(B, kids[i]))
    IN /\ \A i \in 1..Len(kids) : Parent(B, kids[i]) \in Range(tu)
       /\ at(1) - IndexOf(tu, start) \in {0, 1}
       /\ \A i \in 1..(Len(kids) - 1) : at(i + 1) - at(i) \in {0, 1}

\* The lower nodes `kids` that have one parent are next to one another.
ContiguousChildren(B, kids) ==
    \A i \in 1..Len(kids), k \in 1..Len(kids) :
        (i < k /\ Parent(B, kids[i]) = Parent(B, kids[k])) =>
            \A j \in i..k : Parent(B, kids[j]) = Parent(B, kids[i])

C37_CacheBounded ==
    [][sop'.name = "write_page" =>
          LET bytes == EncodeCatalog(CatalogDefault)
              cached == MapInsert(store.cache, sop'.id, bytes)
              over == Cardinality(DOMAIN cached) > CACHE_SIZE
          IN /\ sop'.ok => Cardinality(DOMAIN store'.cache) <= CACHE_SIZE
             /\ (over /\ sop'.ok) =>
                   /\ store'.cache = <<>>
                   /\ store'.calls = <<[call |-> "write_batch", ids |-> DOMAIN cached]>>
                   /\ \A id \in DOMAIN cached : store'.disk[id] = cached[id]
                   /\ \A id \in DOMAIN store.disk \ DOMAIN cached :
                         store'.disk[id] = store.disk[id]
             /\ (over /\ ~sop'.ok) =>
                   /\ store'.cache = cached
                   /\ store'.disk = store.disk
             /\ ~over =>
                   /\ sop'.ok
                   /\ store'.cache = cached
                   /\ store'.disk = store.disk
                   /\ store'.calls = <<>>]_vars

\* A write_page has succeeded on a cache that a failed batch write had left above
\* CACHE_SIZE: the cache is empty and its pages are in the store.
C37_Witness ==
    /\ sop.name = "write_page"
    /\ sop.ok
    /\ store.cache = <<>>
    /\ Len(store.calls) = 1
    /\ Cardinality(store.calls[1].ids) > CACHE_SIZE
    /\ PageIds \subseteq DOMAIN store.disk

\* C38: from a successful free_page(id) until the next write_page to id,
\* read_page(id) returns None, whether the page was in the cache or only in the
\* store when it was freed.
C38_FreedPageReadsNone ==
    (sop.name = "read_page" /\ sop.freed[sop.id] # "") =>
        sop.ok /\ sop.ret = None

\* read_page has answered for a page freed from the cache while another page, freed
\* after it was flushed to the store, has not been written again either.
C38_Witness ==
    /\ sop.name = "read_page"
    /\ sop.freed[sop.id] = "cache"
    /\ \E id \in PageIds \ {GLOBAL_STORE_CATALOG_ID} : sop.freed[id] = "store"

=============================================================================
